---------------------------- MODULE Spec2Model ----------------------------
(***************************************************************************)
(* State-machine model of the media pipeline of homebridge-dahua-ultimate: *)
(*   - PreBuffer (src/unnamed/part_001): ingestion loop, getVideo, stop    *)
(*   - parseFragmentedMP4 / readLength (src/src/streaming/hksvHelpers.ts)  *)
(*   - RecordingDelegate (src/src/streaming/recordingDelegate.ts)          *)
(*   - DahuaEvents (src/src/dahua/events.ts)                               *)
(* Each component has its own specification over the shared variables; the *)
(* variables of the other components stay at their initial values.         *)
(***************************************************************************)
EXTENDS Integers, Sequences, FiniteSets, TLC

VARIABLES
  \* ---- PreBuffer (part_001) ----
  now,            \* Date.now(), in ms
  ftyp,           \* PreBuffer.ftyp (NoAtom while unset)
  moov,           \* PreBuffer.moov (NoAtom while unset)
  prebufferFmp4,  \* PreBuffer.prebufferFmp4: sequence of [atom, time]
  released,       \* PreBuffer.released
  atomListeners,  \* subscribers whose writeAtom is registered on events 'atom'
  socket,         \* per subscriber: "none" | "open" | "destroyed"
  written,        \* per subscriber: the atoms passed to socket.write, in order
  arrived,        \* every atom the ingestion loop has received, in arrival order
  loopNow,        \* the `now` of the latest ingestion loop iteration (line 67)
  subInit,        \* per subscriber: number of init atoms written as preamble
  subAt,          \* per subscriber: Len(arrived) when its connection was handled
  ingestion,      \* the ingestion loop: "running" | "ended" (its catch ran) |
                  \* "crashed" (an error left the connection callback)
  \* ---- box parsers (hksvHelpers.ts, recordingDelegate.ts generator) ----
  parser,         \* which loop runs: "parseFragmentedMP4" | "generator"
  boxes,          \* the boxes the source was given to send (never changes)
  srcLeft,        \* bytes the source has not delivered yet
  rbuf,           \* bytes buffered in the Readable
  ended,          \* the source has ended (EOF reached the Readable)
  truncated,      \* the source ended before delivering all its bytes
  endState,       \* the Readable's 'end' event: "no" | "scheduled" | "emitted"
  news,           \* a 'readable' event is due
  pc,             \* "idle" | "waitHeader" | "payload" | "waitPayload" | "failed"
  header,         \* const header of the current iteration
  length,         \* const length of the current iteration
  yielded,        \* the atoms the loop has yielded, in order
  \* ---- RecordingDelegate: one recording stream (recordingDelegate.ts) ----
  boxesIn,        \* the atoms the generator has handed to the fragment loop
  pending,        \* handleFragmentsRequests: pending (concatenated)
  isFirstFragment,\* handleFragmentsRequests: isFirstFragment
  moofBuffer,     \* handleFragmentsRequests: moofBuffer (<<>> for null)
  fragments,      \* the buffers handleFragmentsRequests has yielded
  packets,        \* the packets handleRecordingStreamRequest has yielded
  recPc,          \* "invoked" | "awaitPrebuffer" | "awaitInput" | "spawning" |
                  \* "loop" (inside for await) | "finished" (the generator is done)
  aborted,        \* abortController.signal.aborted
  abortRegistered,\* streamAbortControllers.has(streamId)
  activeProc,     \* activeFFmpegProcesses.has(streamId)
  cpAlive,        \* the transcoder process has not exited
  cpKilled,       \* cp.killed
  signals,        \* the signals delivered to the process, in order
  timer,          \* the setTimeout of finally: "none" | "armed" | "fired"
  tornDown,       \* how teardown began: "no" | "close" | "finally"
  \* ---- DahuaEvents (events.ts) ----
  buffer,         \* DahuaEvents.buffer, as a sequence of characters
  listeners,      \* DahuaEvents.listeners: [channel, cb] in registration order
  dispatched,     \* the notifyListeners calls made, in order
  invoked,        \* the callback invocations made, in order
  feed,           \* text the event connection has not delivered yet
  record,         \* the record the camera was given to send (never changes)
  nChunks,        \* handleChunk calls so far
  \* ---- RecordingDelegate: a recording stream request from its start ----
  currentRecordingConfiguration, \* this.currentRecordingConfiguration is set
  videoConfigPrebuffer,  \* this.videoConfig.prebuffer
  videoConfigSource,     \* this.videoConfig.source is a non-empty string
  spawnOk,        \* the video processor executable can be spawned
  preBuffer,      \* this.preBuffer is set
  preBufferSession, \* this.preBufferSession is set
  captureSpawned, \* prebuffer capture processes spawned since the request
  transcoderSpawned, \* recording transcoder processes spawned since the request
  closeCalled,    \* closeRecordingStream has been called for the stream
  endCause,       \* why the stream ended: "none" | "noconfig" | "nosource" |
                  \* "spawn" | "eof" | "badbox" | "abort"
  \* ---- RecordingDelegate: several recording streams and this.process ----
  process,        \* this.process: index into procs, 0 while unset
  procs,          \* every transcoder spawned: [stream, alive, killed, signals]
  activeFFmpegProcesses, \* per stream id: index into procs, 0 when absent
  streamPc,       \* per stream id: "idle" | "loop" | "done"
  \* ---- PreBuffer.startPreBuffer calls (part_001) ----
  startCalls,     \* the calls made: [arg, pc, session]
  captureServers, \* listening sockets opened by startPreBuffer
  captureProcesses, \* capture processes spawned by startPreBuffer
  \* ---- StreamingDelegate (part_002) ----
  pendingSessions, \* keys of this.pendingSessions
  activeSessions,  \* this.activeSessions: session id -> index into liveProcs, 0 when absent
  liveProcs,       \* every live transcoder spawned: [session, usable, state, signals]
  callbacks,       \* the request callbacks made: [type, session, error]
  prepared,        \* per session id: number of prepareStream calls completed
  liveSource,      \* this.videoConfig.source is set
  \* ---- StreamingDelegate: negotiation (part_002) ----
  videoRequest,    \* the request: [width, height, max_bit_rate]
  videoConfig,     \* this.videoConfig: the limits and the resolution mode
  negotiated,      \* what was resolved: [kind, width, height, bitrate, errors]
  \* ---- StreamingDelegate: buildFfmpegArgs (part_002) ----
  encoderConfig,   \* this.videoConfig: [encoder, vcodec, encoderOptions, qualityProfile]
  builtArgs,       \* the video flags of the argument string built
  \* ---- DahuaEvents: the event connection (events.ts) ----
  eventStream,     \* this.eventStream: 0 for null, else the connection it holds
  openConns,       \* the connections to the camera that are open
  nConns,          \* connections opened so far
  logged,          \* the messages start, stop, handleError and handleClose logged
  \* ---- RecordingDelegate with pre-buffering: several requests ----
  rdPreBuffer,         \* this.preBuffer: 0 for undefined, else the instance
  rdPreBufferSession,  \* this.preBufferSession: 0 for undefined, else the capture
  rdInstances,         \* PreBuffer instances constructed so far
  rdCaptures,          \* capture processes spawned so far
  rdRequests           \* per stream id: [pc, uses] of its request

preVars == <<now, ftyp, moov, prebufferFmp4, released, atomListeners, socket,
             written, arrived, loopNow, subInit, subAt, ingestion>>

boxVars == <<parser, boxes, srcLeft, rbuf, ended, truncated, endState, news,
             pc, header, length, yielded>>

recVars == <<boxesIn, pending, isFirstFragment, moofBuffer, fragments, packets,
             recPc, aborted, abortRegistered, activeProc, cpAlive, cpKilled,
             signals, timer, tornDown>>

evtVars == <<buffer, listeners, dispatched, invoked, feed, record, nChunks>>

reqVars == <<currentRecordingConfiguration, videoConfigPrebuffer, videoConfigSource,
             spawnOk, preBuffer, preBufferSession, captureSpawned,
             transcoderSpawned, closeCalled, endCause>>

reqConfig == <<currentRecordingConfiguration, videoConfigPrebuffer, videoConfigSource,
               spawnOk>>

reqProcs == <<preBuffer, preBufferSession, captureSpawned, transcoderSpawned>>

strVars == <<process, procs, activeFFmpegProcesses, streamPc>>

startVars == <<startCalls, captureServers, captureProcesses>>

liveVars == <<pendingSessions, activeSessions, liveProcs, callbacks, prepared,
              liveSource>>

negVars == <<videoRequest, videoConfig, negotiated>>

argVars == <<encoderConfig, builtArgs>>
conVars == <<eventStream, openConns, nConns, logged>>
rdVars == <<rdPreBuffer, rdPreBufferSession, rdInstances, rdCaptures, rdRequests>>

vars == <<preVars, boxVars, recVars, evtVars, reqVars, strVars, startVars, liveVars,
         negVars, argVars, conVars, rdVars>>

----------------------------------------------------------------------------
(* Bounds of the model *)
MaxAtoms == 5          \* atoms the capture process delivers in one run
MaxTime == 20000       \* the clock stops advancing here

(* Program constants *)
DEFAULT_PREBUFFER_DURATION == 15000

Subs == {"sub1", "sub2"}     \* connections to servers created by getVideo

\* The capture process writes fragmented MP4 (-f mp4 -movflags
\* frag_keyframe+empty_moov+default_base_moof, lines 104-109): an ftyp box, a
\* moov box, then media boxes.  The order of the media boxes is left open.
TypesAt(n) == IF n = 1 THEN {"ftyp"} ELSE IF n = 2 THEN {"moov"} ELSE {"moof", "mdat"}
\* requestedPrebuffer: videoConfig.prebufferLength || 4000 (recordingDelegate.ts:305)
RequestedWindows == {4000, 15000}

NoAtom == [id |-> 0, type |-> "none"]

----------------------------------------------------------------------------
(* Box parsers: readLength, parseFragmentedMP4 (hksvHelpers.ts) and the    *)
(* generator of startFFMPegFragmentedMP4Session (recordingDelegate.ts)     *)

MaxBoxes == 3          \* boxes the source is given to send

\* 50 * 1024 * 1024 (recordingDelegate.ts:427)
MaxBoxPayload == 52428800

\* processKilledIntentionally (recordingDelegate.ts:415): set only by cleanup
\* (line 464), which is stored on the process object and never called
processKilledIntentionally == FALSE

Take(seq, n) == SubSeq(seq, 1, n)
Drop(seq, n) == SubSeq(seq, n + 1, Len(seq))

\* the bytes the source may send, box by box: [hdr: 8 bytes, payload: bytes].
\* ftyp without payload, mdat with two payload bytes, and three headers whose
\* length field is out of range (7; 0xFFFFFFF0; 50 MiB + 9), each followed by
\* one further byte.
BoxChoices ==
  { [hdr |-> <<0, 0, 0, 8, 102, 116, 121, 112>>, payload |-> <<>>],
    [hdr |-> <<0, 0, 0, 10, 109, 100, 97, 116>>, payload |-> <<171, 205>>],
    [hdr |-> <<0, 0, 0, 7, 109, 111, 111, 102>>, payload |-> <<1>>],
    [hdr |-> <<255, 255, 255, 240, 109, 111, 111, 102>>, payload |-> <<1>>],
    [hdr |-> <<3, 32, 0, 9, 109, 100, 97, 116>>, payload |-> <<1>>] }

RECURSIVE Flatten(_)
Flatten(bs) ==
  IF bs = <<>> THEN <<>> ELSE bs[1].hdr \o bs[1].payload \o Flatten(Tail(bs))

\* Buffer.readInt32BE(0) throws a RangeError when the buffer holds fewer
\* than 4 bytes
readInt32BEThrows(buf) == Len(buf) < 4

\* Buffer.readInt32BE(0): big-endian, two's complement, 32 bits
readInt32BE(buf) ==
  ((IF buf[1] >= 128 THEN buf[1] - 256 ELSE buf[1]) * 16777216)
  + buf[2] * 65536 + buf[3] * 256 + buf[4]

\* header.slice(4).toString() for the tags the source sends
TypeOfTag(tag) ==
  CASE tag = <<102, 116, 121, 112>> -> "ftyp"
    [] tag = <<109, 111, 111, 118>> -> "moov"
    [] tag = <<109, 111, 111, 102>> -> "moof"
    [] tag = <<109, 100, 97, 116>> -> "mdat"
    [] OTHER -> "other"

\* header.slice(0, 4) in place of header.slice(4)
TagOfFirstFour(hdr) == Take(hdr, 4)

\* header.slice(4)
TagOf(hdr) == Drop(hdr, 4)

\* readable.read(n) of a Node stream returns null (FALSE here) unless n
\* bytes are buffered or the stream has ended with some bytes left; n <= 0
\* reads nothing
ReadReturns(n) ==
  n > 0 /\ (Len(rbuf) >= n \/ (ended /\ Len(rbuf) > 0))

\* what readable.read(n) returns then: n bytes, or at the end of the stream
\* whatever is left
ReadResult(n) ==
  IF Len(rbuf) >= n THEN Take(rbuf, n) ELSE rbuf

\* the buffer after readable.read(n)
ReadRest(n) ==
  IF ReadReturns(n) THEN Drop(rbuf, Len(ReadResult(n))) ELSE rbuf

\* readable.read at the end of the stream with nothing left to return, or
\* returning less than asked, makes the Readable emit 'end' on a later tick
EndAfterRead(n) ==
  IF ended /\ ReadRest(n) = <<>> /\ endState = "no"
     /\ (~ReadReturns(n) \/ Len(ReadResult(n)) < n)
  THEN "scheduled" ELSE endState

\* the length check of the generator (recordingDelegate.ts:427); absent from
\* parseFragmentedMP4
InvalidBox(len) ==
  parser = "generator" /\ (len < 0 \/ len > MaxBoxPayload)

\* the loop continues with the 8 header bytes readLength returned
GotHeader(h) ==
  /\ header' = h
  /\ IF readInt32BEThrows(h)
     THEN pc' = "failed" /\ length' = length
     ELSE /\ length' = readInt32BE(h) - 8
          /\ pc' = IF InvalidBox(readInt32BE(h) - 8) THEN "failed" ELSE "payload"
  /\ UNCHANGED yielded

\* the loop continues with the payload readLength returned: yield the atom
GotPayload(d) ==
  /\ yielded' = Append(yielded, [header |-> header, length |-> length,
                                 type |-> TypeOfTag(TagOf(header)), data |-> d])
  /\ pc' = "idle"
  /\ UNCHANGED <<header, length>>

\* the source delivers its next n bytes
SourcePush(n) ==
  /\ ~ended
  /\ n \in 1..Len(srcLeft)
  /\ rbuf' = rbuf \o Take(srcLeft, n)
  /\ srcLeft' = Drop(srcLeft, n)
  /\ news' = TRUE
  /\ UNCHANGED <<parser, boxes, ended, truncated, endState, pc, header, length, yielded>>
  /\ UNCHANGED <<preVars, recVars, evtVars, reqVars, strVars, startVars, liveVars, negVars, argVars, conVars, rdVars>>

\* the source ends (the process exits, the connection closes)
SourceEnd ==
  /\ ~ended
  /\ ended' = TRUE
  /\ truncated' = (srcLeft # <<>>)
  /\ srcLeft' = <<>>
  /\ news' = TRUE
  /\ UNCHANGED <<parser, boxes, rbuf, endState, pc, header, length, yielded>>
  /\ UNCHANGED <<preVars, recVars, evtVars, reqVars, strVars, startVars, liveVars, negVars, argVars, conVars, rdVars>>

\* the loop calls readLength(readable, 8) (hksvHelpers.ts:85,
\* recordingDelegate.ts:423): lines 45-54, then the listeners of lines 75-76
ReadHeader ==
  /\ pc = "idle"
  /\ rbuf' = ReadRest(8)
  /\ endState' = EndAfterRead(8)
  /\ IF ReadReturns(8)
     THEN GotHeader(ReadResult(8))
     ELSE pc' = "waitHeader" /\ UNCHANGED <<header, length, yielded>>
  /\ UNCHANGED <<parser, boxes, srcLeft, ended, truncated, news>>
  /\ UNCHANGED <<preVars, recVars, evtVars, reqVars, strVars, startVars, liveVars, negVars, argVars, conVars, rdVars>>

\* the loop calls readLength(readable, length) (hksvHelpers.ts:88,
\* recordingDelegate.ts:431)
ReadPayload ==
  /\ pc = "payload"
  /\ IF length = 0
     THEN GotPayload(<<>>) /\ UNCHANGED <<rbuf, endState>>
     ELSE /\ rbuf' = ReadRest(length)
          /\ endState' = EndAfterRead(length)
          /\ IF ReadReturns(length)
             THEN GotPayload(ReadResult(length))
             ELSE pc' = "waitPayload" /\ UNCHANGED <<header, length, yielded>>
  /\ UNCHANGED <<parser, boxes, srcLeft, ended, truncated, news>>
  /\ UNCHANGED <<preVars, recVars, evtVars, reqVars, strVars, startVars, liveVars, negVars, argVars, conVars, rdVars>>

\* the 'readable' listener r of a pending readLength (lines 57-63)
OnReadable ==
  /\ pc \in {"waitHeader", "waitPayload"}
  /\ news
  /\ news' = FALSE
  /\ LET n == IF pc = "waitHeader" THEN 8 ELSE length
     IN /\ rbuf' = ReadRest(n)
        /\ endState' = EndAfterRead(n)
        /\ IF ~ReadReturns(n) THEN UNCHANGED <<pc, header, length, yielded>>
           ELSE IF pc = "waitHeader" THEN GotHeader(ReadResult(n))
           ELSE GotPayload(ReadResult(n))
  /\ UNCHANGED <<parser, boxes, srcLeft, ended, truncated>>
  /\ UNCHANGED <<preVars, recVars, evtVars, reqVars, strVars, startVars, liveVars, negVars, argVars, conVars, rdVars>>

\* the Readable emits 'end': the listener e of a pending readLength rejects
\* (lines 65-68) and the loop ends with that error; without a pending
\* readLength nobody listens
OnEnd ==
  /\ endState = "scheduled"
  /\ endState' = "emitted"
  /\ pc' = IF pc \in {"waitHeader", "waitPayload"} THEN "failed" ELSE pc
  /\ UNCHANGED <<parser, boxes, srcLeft, rbuf, ended, truncated, news, header,
                 length, yielded>>
  /\ UNCHANGED <<preVars, recVars, evtVars, reqVars, strVars, startVars, liveVars, negVars, argVars, conVars, rdVars>>

\* no parser runs
BoxIdle ==
  /\ parser = "parseFragmentedMP4"
  /\ boxes = <<>>
  /\ srcLeft = <<>>
  /\ rbuf = <<>>
  /\ ended = FALSE
  /\ truncated = FALSE
  /\ endState = "no"
  /\ news = FALSE
  /\ pc = "idle"
  /\ header = <<>>
  /\ length = 0
  /\ yielded = <<>>

BoxStreams ==
  UNION {[1..n -> BoxChoices] : n \in 0..MaxBoxes}

----------------------------------------------------------------------------
(* RecordingDelegate: the fragment loop of handleFragmentsRequests, the     *)
(* consumer loop of handleRecordingStreamRequest, closeRecordingStream and  *)
(* the teardown of the transcoder process, for one recording stream         *)

MaxRecBoxes == 8       \* atoms the transcoder delivers to one recording

\* The transcoder writes fragmented MP4 to stdout (-f mp4 -movflags
\* frag_keyframe+empty_moov+default_base_moof+omit_tfhd_offset, lines
\* 397-402): ftyp, moov, then media boxes, and mfra when it finishes.  The
\* order of the media boxes is left open.
RecTypesAt(n) ==
  IF n = 1 THEN {"ftyp"} ELSE IF n = 2 THEN {"moov"} ELSE {"moof", "mdat", "mfra"}

\* the bytes of a box: its header and its payload (box.header, box.data)
BoxBytes(box) ==
  <<[atom |-> box.id, part |-> "header"], [atom |-> box.id, part |-> "data"]>>

\* moofBuffer without `moofBuffer = null` after the yield (line 361)
NextMoofBufferKept(type, box, mb) ==
  IF type = "moof" THEN BoxBytes(box) ELSE mb

\* moofBuffer after one iteration past the first fragment (lines 354-362)
NextMoofBuffer(type, box, mb) ==
  IF type = "moof" THEN BoxBytes(box)
  ELSE IF type = "mdat" /\ mb # <<>> THEN <<>>
  ELSE mb

\* what one iteration yields, as a sequence of zero or one buffer
\* (lines 345-363)
YieldOf(type, box) ==
  IF isFirstFragment
  THEN IF type = "moov" THEN <<pending \o BoxBytes(box)>> ELSE <<>>
  ELSE IF type = "mdat" /\ moofBuffer # <<>>
       THEN <<moofBuffer \o BoxBytes(box)>>
       ELSE <<>>

\* cp.kill(signal): delivers the signal and sets cp.killed when the process
\* has not exited; does nothing otherwise
KillDelivers == cpAlive

\* the finally block of handleFragmentsRequests (lines 367-378)
Finally ==
  /\ recPc' = "finished"
  /\ IF ~cpKilled
     THEN /\ signals' = IF KillDelivers THEN Append(signals, "SIGTERM") ELSE signals
          /\ cpKilled' = KillDelivers
          /\ timer' = "armed"
     ELSE UNCHANGED <<signals, cpKilled, timer>>
  /\ activeProc' = FALSE
  /\ tornDown' = IF tornDown = "no" THEN "finally" ELSE tornDown

\* one iteration of `for await (const box of generator)` (lines 341-364)
\* and, when it yields, of the consumer loop (lines 118-136); a consumer that
\* finds the stream aborted breaks, which returns the generator into finally
RecBox(type) ==
  /\ recPc = "loop"
  /\ Len(boxesIn) < MaxRecBoxes
  /\ LET box == [id |-> Len(boxesIn) + 1, type |-> type]
         out == YieldOf(type, box)
     IN /\ boxesIn' = Append(boxesIn, box)
        /\ pending' = IF isFirstFragment /\ type = "moov" THEN <<>>
                      ELSE pending \o BoxBytes(box)
        /\ isFirstFragment' = (isFirstFragment /\ type # "moov")
        /\ fragments' = fragments \o out
        /\ IF out # <<>> /\ aborted
           THEN /\ Finally
                /\ UNCHANGED <<moofBuffer, packets>>
           ELSE /\ moofBuffer' = IF isFirstFragment THEN moofBuffer
                                 ELSE NextMoofBuffer(type, box, moofBuffer)
                /\ packets' = packets \o [i \in 1..Len(out) |->
                                            [data |-> out[i], isLast |-> FALSE]]
                /\ UNCHANGED <<recPc, signals, cpKilled, timer, activeProc, tornDown>>
        /\ endCause' = IF out # <<>> /\ aborted THEN "abort" ELSE endCause
  /\ UNCHANGED <<aborted, abortRegistered, cpAlive>>
  /\ UNCHANGED <<reqConfig, reqProcs, closeCalled>>
  /\ UNCHANGED <<preVars, boxVars, evtVars, strVars, startVars, liveVars, negVars, argVars, conVars, rdVars>>

\* the generator ends with an error (the stream ended, a box is invalid): the
\* catch of line 365, then finally; the consumer loop ends and the finally of
\* lines 148-151 runs
RecGeneratorEnds(cause) ==
  /\ recPc = "loop"
  /\ Finally
  /\ abortRegistered' = FALSE
  /\ endCause' = cause
  /\ UNCHANGED <<boxesIn, pending, isFirstFragment, moofBuffer, fragments, packets,
                 aborted, cpAlive>>
  /\ UNCHANGED <<reqConfig, reqProcs, closeCalled>>
  /\ UNCHANGED <<preVars, boxVars, evtVars, strVars, startVars, liveVars, negVars, argVars, conVars, rdVars>>

\* closeRecordingStream(streamId, reason) (lines 158-211); the host calls it
\* for a stream whose generator it has begun to consume
CloseRecordingStream ==
  /\ recPc # "invoked"
  /\ aborted' = (aborted \/ abortRegistered)
  /\ abortRegistered' = FALSE
  /\ IF activeProc /\ ~cpKilled
     THEN /\ signals' = IF KillDelivers THEN Append(signals, "SIGTERM") ELSE signals
          /\ cpKilled' = KillDelivers
          /\ activeProc' = FALSE
          /\ tornDown' = IF tornDown = "no" THEN "close" ELSE tornDown
     ELSE UNCHANGED <<signals, cpKilled, activeProc, tornDown>>
  /\ UNCHANGED <<boxesIn, pending, isFirstFragment, moofBuffer, fragments, packets,
                 recPc, cpAlive, timer>>
  /\ closeCalled' = TRUE
  /\ UNCHANGED <<reqConfig, reqProcs, endCause>>
  /\ UNCHANGED <<preVars, boxVars, evtVars, strVars, startVars, liveVars, negVars, argVars, conVars, rdVars>>

\* the callback of setTimeout(..., 2000) (lines 371-375)
KillTimerFires ==
  /\ timer = "armed"
  /\ timer' = "fired"
  /\ IF ~cpKilled
     THEN /\ signals' = IF KillDelivers THEN Append(signals, "SIGKILL") ELSE signals
          /\ cpKilled' = KillDelivers
     ELSE UNCHANGED <<signals, cpKilled>>
  /\ UNCHANGED <<boxesIn, pending, isFirstFragment, moofBuffer, fragments, packets,
                 recPc, aborted, abortRegistered, activeProc, cpAlive, tornDown>>
  /\ UNCHANGED reqVars
  /\ UNCHANGED <<preVars, boxVars, evtVars, strVars, startVars, liveVars, negVars, argVars, conVars, rdVars>>

\* the transcoder process exits: on its own, or because of a signal (it may
\* also handle SIGTERM and keep running)
ProcessExits ==
  /\ cpAlive
  /\ cpAlive' = FALSE
  /\ UNCHANGED <<boxesIn, pending, isFirstFragment, moofBuffer, fragments, packets,
                 recPc, aborted, abortRegistered, activeProc, cpKilled, signals,
                 timer, tornDown>>
  /\ UNCHANGED reqVars
  /\ UNCHANGED <<preVars, boxVars, evtVars, strVars, startVars, liveVars, negVars, argVars, conVars, rdVars>>

\* no recording stream
RecIdle ==
  /\ boxesIn = <<>>
  /\ pending = <<>>
  /\ isFirstFragment = TRUE
  /\ moofBuffer = <<>>
  /\ fragments = <<>>
  /\ packets = <<>>
  /\ recPc = "finished"
  /\ aborted = FALSE
  /\ abortRegistered = FALSE
  /\ activeProc = FALSE
  /\ cpAlive = FALSE
  /\ cpKilled = FALSE
  /\ signals = <<>>
  /\ timer = "none"
  /\ tornDown = "no"

\* a recording stream whose transcoder has been spawned and registered
\* (lines 109-110, 326-338)
RecStarted ==
  /\ boxesIn = <<>>
  /\ pending = <<>>
  /\ isFirstFragment = TRUE
  /\ moofBuffer = <<>>
  /\ fragments = <<>>
  /\ packets = <<>>
  /\ recPc = "loop"
  /\ aborted = FALSE
  /\ abortRegistered = TRUE
  /\ activeProc = TRUE
  /\ cpAlive = TRUE
  /\ cpKilled = FALSE
  /\ signals = <<>>
  /\ timer = "none"
  /\ tornDown = "no"

----------------------------------------------------------------------------
(* RecordingDelegate: a recording stream request from its first statement:  *)
(* handleRecordingStreamRequest, startPreBuffer and the start of            *)
(* handleFragmentsRequests up to the fragment loop.  recPc is "invoked",    *)
(* "awaitPrebuffer", "awaitInput" or "spawning" before the loop.           *)

\* the catch of handleRecordingStreamRequest (lines 142-147) and its finally
\* (lines 148-151): the terminal packet, then the controller is dropped
FailStream(cause) ==
  /\ packets' = Append(packets, [data |-> <<>>, isLast |-> TRUE])
  /\ abortRegistered' = FALSE
  /\ recPc' = "finished"
  /\ endCause' = cause

\* this.process = spawn(ffmpegPath, args, ...) (lines 409-412), then the
\* promise waits for 'spawn' or 'error'
StartSpawn ==
  /\ recPc' = "spawning"
  /\ cpAlive' = spawnOk
  /\ transcoderSpawned' = transcoderSpawned + (IF spawnOk THEN 1 ELSE 0)

\* lines 108-113 and handleFragmentsRequests up to its next await
\* (lines 301-326), given whether this.preBuffer is set by then
RegisterAndGetInput(pb) ==
  IF videoConfigPrebuffer /\ pb
  THEN /\ recPc' = "awaitInput"
       /\ abortRegistered' = TRUE
       /\ UNCHANGED <<packets, cpAlive, transcoderSpawned, endCause>>
  ELSE IF ~videoConfigSource
  THEN /\ FailStream("nosource")
       /\ UNCHANGED <<cpAlive, transcoderSpawned>>
  ELSE /\ StartSpawn
       /\ abortRegistered' = TRUE
       /\ UNCHANGED <<packets, endCause>>

\* handleRecordingStreamRequest from its first statement to its first await
\* that waits for an event (lines 89-113)
ReqBegin ==
  /\ recPc = "invoked"
  /\ IF ~currentRecordingConfiguration
     THEN /\ recPc' = "finished"
          /\ endCause' = "noconfig"
          /\ UNCHANGED <<packets, abortRegistered, cpAlive, transcoderSpawned, preBuffer>>
     ELSE IF videoConfigPrebuffer /\ ~preBuffer
     THEN /\ preBuffer' = TRUE
          /\ recPc' = "awaitPrebuffer"
          /\ UNCHANGED <<packets, abortRegistered, cpAlive, transcoderSpawned, endCause>>
     ELSE /\ RegisterAndGetInput(preBuffer)
          /\ UNCHANGED preBuffer
  /\ UNCHANGED <<boxesIn, pending, isFirstFragment, moofBuffer, fragments, aborted,
                 activeProc, cpKilled, signals, timer, tornDown>>
  /\ UNCHANGED <<reqConfig, preBufferSession, captureSpawned, closeCalled>>
  /\ UNCHANGED <<preVars, boxVars, evtVars, strVars, startVars, liveVars, negVars, argVars, conVars, rdVars>>

\* PreBuffer.startPreBuffer() has listened and spawned the capture process
\* (part_001 lines 102-131); startPreBuffer (lines 216-233) stores the session
\* and the request goes on (lines 108-113, 301-307)
PrebufferReady ==
  /\ recPc = "awaitPrebuffer"
  /\ captureSpawned' = captureSpawned + (IF spawnOk THEN 1 ELSE 0)
  /\ preBufferSession' = TRUE
  /\ RegisterAndGetInput(preBuffer)
  /\ UNCHANGED <<boxesIn, pending, isFirstFragment, moofBuffer, fragments, aborted,
                 activeProc, cpKilled, signals, timer, tornDown>>
  /\ UNCHANGED <<reqConfig, preBuffer, closeCalled>>
  /\ UNCHANGED <<preVars, boxVars, evtVars, strVars, startVars, liveVars, negVars, argVars, conVars, rdVars>>

\* preBuffer.getVideo() has resolved with its input arguments (lines 306-307):
\* the input is not empty and the transcoder is started (lines 315-326)
InputReady ==
  /\ recPc = "awaitInput"
  /\ StartSpawn
  /\ UNCHANGED <<boxesIn, pending, isFirstFragment, moofBuffer, fragments, packets,
                 aborted, abortRegistered, activeProc, cpKilled, signals, timer,
                 tornDown>>
  /\ UNCHANGED <<reqConfig, preBuffer, preBufferSession, captureSpawned, closeCalled,
                 endCause>>
  /\ UNCHANGED <<preVars, boxVars, evtVars, strVars, startVars, liveVars, negVars, argVars, conVars, rdVars>>

\* cp.on('spawn') resolves the session (lines 453-455); the process is
\* registered for the stream (line 330) and the fragment loop begins
SpawnEvent ==
  /\ recPc = "spawning"
  /\ spawnOk
  /\ activeProc' = TRUE
  /\ recPc' = "loop"
  /\ UNCHANGED <<boxesIn, pending, isFirstFragment, moofBuffer, fragments, packets,
                 aborted, abortRegistered, cpAlive, cpKilled, signals, timer,
                 tornDown>>
  /\ UNCHANGED reqVars
  /\ UNCHANGED <<preVars, boxVars, evtVars, strVars, startVars, liveVars, negVars, argVars, conVars, rdVars>>

\* cp.on('error') rejects the session (line 457); handleFragmentsRequests
\* throws (lines 332-335) into the catch of handleRecordingStreamRequest
SpawnError ==
  /\ recPc = "spawning"
  /\ ~spawnOk
  /\ FailStream("spawn")
  /\ UNCHANGED <<boxesIn, pending, isFirstFragment, moofBuffer, fragments, aborted,
                 activeProc, cpAlive, cpKilled, signals, timer, tornDown>>
  /\ UNCHANGED <<reqConfig, reqProcs, closeCalled>>
  /\ UNCHANGED <<preVars, boxVars, evtVars, strVars, startVars, liveVars, negVars, argVars, conVars, rdVars>>

\* no recording stream request
ReqIdle ==
  /\ currentRecordingConfiguration = FALSE
  /\ videoConfigPrebuffer = FALSE
  /\ videoConfigSource = FALSE
  /\ spawnOk = FALSE
  /\ preBuffer = FALSE
  /\ preBufferSession = FALSE
  /\ captureSpawned = 0
  /\ transcoderSpawned = 0
  /\ closeCalled = FALSE
  /\ endCause = "none"

\* the request of a stream whose transcoder runs (RecStarted): configured,
\* direct capture source, one transcoder spawned
ReqRunning ==
  /\ currentRecordingConfiguration = TRUE
  /\ videoConfigPrebuffer = FALSE
  /\ videoConfigSource = TRUE
  /\ spawnOk = TRUE
  /\ preBuffer = FALSE
  /\ preBufferSession = FALSE
  /\ captureSpawned = 0
  /\ transcoderSpawned = 1
  /\ closeCalled = FALSE
  /\ endCause = "none"

\* handleRecordingStreamRequest(streamId) has just been invoked, under any
\* configuration; a delegate with pre-buffering may already hold its PreBuffer
ReqInvoked ==
  /\ boxesIn = <<>>
  /\ pending = <<>>
  /\ isFirstFragment = TRUE
  /\ moofBuffer = <<>>
  /\ fragments = <<>>
  /\ packets = <<>>
  /\ recPc = "invoked"
  /\ aborted = FALSE
  /\ abortRegistered = FALSE
  /\ activeProc = FALSE
  /\ cpAlive = FALSE
  /\ cpKilled = FALSE
  /\ signals = <<>>
  /\ timer = "none"
  /\ tornDown = "no"
  /\ currentRecordingConfiguration \in BOOLEAN
  /\ videoConfigPrebuffer \in BOOLEAN
  /\ videoConfigSource \in BOOLEAN
  /\ spawnOk \in BOOLEAN
  /\ preBuffer \in {FALSE, videoConfigPrebuffer}
  /\ preBufferSession = preBuffer
  /\ captureSpawned = 0
  /\ transcoderSpawned = 0
  /\ closeCalled = FALSE
  /\ endCause = "none"

----------------------------------------------------------------------------
(* RecordingDelegate: several recording streams on one delegate, which      *)
(* holds the latest transcoder in this.process                              *)

MaxProcs == 3          \* transcoders spawned on one delegate

StreamIds == {1, 2}

\* cp.kill(sig) called on behalf of stream `by`: delivered, and cp.killed set,
\* when the process has not exited
KillProc(ps, p, sig, by) ==
  IF ps[p].alive
  THEN [ps EXCEPT ![p].killed = TRUE,
                  ![p].signals = Append(@, [sig |-> sig, by |-> by])]
  ELSE ps

\* the const cp of a stream's handleFragmentsRequests: the transcoder that
\* was spawned for it last
CpOf(s) ==
  CHOOSE p \in 1..Len(procs) :
    /\ procs[p].stream = s
    /\ \A q \in (p + 1)..Len(procs) : procs[q].stream # s

\* startFFMPegFragmentedMP4Session for stream s (lines 404-414, 453-457) and
\* the registration of line 330; ok tells whether the executable spawns
StartSession(s, ok) ==
  /\ streamPc[s] # "loop"
  /\ Len(procs) < MaxProcs
  /\ LET previous == IF process # 0 /\ ~procs[process].killed
                     THEN KillProc(procs, process, "SIGKILL", s)
                     ELSE procs
     IN procs' = Append(previous, [stream |-> s, alive |-> ok, killed |-> FALSE,
                                   signals |-> <<>>, timer |-> "none"])
  /\ process' = Len(procs) + 1
  /\ activeFFmpegProcesses' =
       IF ok THEN [activeFFmpegProcesses EXCEPT ![s] = Len(procs) + 1]
       ELSE activeFFmpegProcesses
  /\ streamPc' = [streamPc EXCEPT ![s] = IF ok THEN "loop" ELSE "done"]
  /\ UNCHANGED <<preVars, boxVars, recVars, evtVars, reqVars, startVars, liveVars, negVars, argVars, conVars, rdVars>>

\* the fragment loop of stream s ends: the finally block (lines 367-378)
StreamFinally(s) ==
  /\ streamPc[s] = "loop"
  /\ LET cp == CpOf(s)
     IN procs' = IF ~procs[cp].killed
                 THEN [KillProc(procs, cp, "SIGTERM", s) EXCEPT ![cp].timer = "armed"]
                 ELSE procs
  /\ activeFFmpegProcesses' = [activeFFmpegProcesses EXCEPT ![s] = 0]
  /\ streamPc' = [streamPc EXCEPT ![s] = "done"]
  /\ UNCHANGED process
  /\ UNCHANGED <<preVars, boxVars, recVars, evtVars, reqVars, startVars, liveVars, negVars, argVars, conVars, rdVars>>

\* closeRecordingStream(s, reason): the process part (lines 204-210)
StreamClose(s) ==
  /\ LET p == activeFFmpegProcesses[s]
     IN IF p # 0 /\ ~procs[p].killed
        THEN /\ procs' = KillProc(procs, p, "SIGTERM", s)
             /\ activeFFmpegProcesses' = [activeFFmpegProcesses EXCEPT ![s] = 0]
        ELSE UNCHANGED <<procs, activeFFmpegProcesses>>
  /\ UNCHANGED <<process, streamPc>>
  /\ UNCHANGED <<preVars, boxVars, recVars, evtVars, reqVars, startVars, liveVars, negVars, argVars, conVars, rdVars>>

\* the callback of the finally block's setTimeout (lines 371-375)
StreamKillTimer(p) ==
  /\ procs[p].timer = "armed"
  /\ LET fired == [procs EXCEPT ![p].timer = "fired"]
     IN procs' = IF ~procs[p].killed
                 THEN KillProc(fired, p, "SIGKILL", procs[p].stream)
                 ELSE fired
  /\ UNCHANGED <<process, activeFFmpegProcesses, streamPc>>
  /\ UNCHANGED <<preVars, boxVars, recVars, evtVars, reqVars, startVars, liveVars, negVars, argVars, conVars, rdVars>>

\* a transcoder exits, on its own or because of a signal
StreamProcessExits(p) ==
  /\ procs[p].alive
  /\ procs' = [procs EXCEPT ![p].alive = FALSE]
  /\ UNCHANGED <<process, activeFFmpegProcesses, streamPc>>
  /\ UNCHANGED <<preVars, boxVars, recVars, evtVars, reqVars, startVars, liveVars, negVars, argVars, conVars, rdVars>>

\* a delegate after construction: no stream, no process
StrIdle ==
  /\ process = 0
  /\ procs = <<>>
  /\ activeFFmpegProcesses = [s \in StreamIds |-> 0]
  /\ streamPc = [s \in StreamIds |-> "idle"]

----------------------------------------------------------------------------
(* PreBuffer.startPreBuffer(prebufferSession?) called any number of times   *)
(* on one PreBuffer (part_001 lines 51-134)                                 *)

MaxStartCalls == 4     \* startPreBuffer calls on one PreBuffer

\* the sessions earlier calls have returned
ReturnedSessions ==
  {startCalls[i].session : i \in {j \in 1..Len(startCalls) : startCalls[j].pc = "done"}}

\* startPreBuffer(prebufferSession) up to its first await: a session passed
\* in is returned as it is (lines 52-54); otherwise a server is created and
\* listenServer is awaited (lines 61, 102).  arg = 0 stands for no argument.
StartPreBufferCall(arg) ==
  /\ Len(startCalls) < MaxStartCalls
  /\ arg \in {0} \cup ReturnedSessions
  /\ IF arg # 0
     THEN /\ startCalls' = Append(startCalls, [arg |-> arg, pc |-> "done", session |-> arg])
          /\ UNCHANGED captureServers
     ELSE /\ startCalls' = Append(startCalls, [arg |-> 0, pc |-> "listening", session |-> 0])
          /\ captureServers' = captureServers + 1
  /\ UNCHANGED captureProcesses
  /\ UNCHANGED <<preVars, boxVars, recVars, evtVars, reqVars, strVars, liveVars, negVars, argVars, conVars, rdVars>>

\* the server of call i listens: the capture process is spawned and the new
\* session { server, process } is returned (lines 102-133)
StartPreBufferListening(i) ==
  /\ startCalls[i].pc = "listening"
  /\ captureProcesses' = captureProcesses + 1
  /\ startCalls' = [startCalls EXCEPT ![i].pc = "done",
                                      ![i].session = captureProcesses + 1]
  /\ UNCHANGED captureServers
  /\ UNCHANGED <<preVars, boxVars, recVars, evtVars, reqVars, strVars, liveVars, negVars, argVars, conVars, rdVars>>

\* a PreBuffer after construction
StartIdle ==
  /\ startCalls = <<>>
  /\ captureServers = 0
  /\ captureProcesses = 0

----------------------------------------------------------------------------
(* StreamingDelegate: prepareStream, handleStreamRequest, startStream,      *)
(* stopStream and the process event handlers (part_002)                    *)

MaxLiveProcs == 2      \* live transcoders spawned
MaxRequests == 5       \* PREPARE / START / STOP requests made

SessionIds == {"s1", "s2"}

\* a request callback, with the process the request spawned (0 for none)
Callback(type, id, error, proc) ==
  [type |-> type, session |-> id, error |-> error, proc |-> proc]

\* this.pendingSessions keeps the entry of a started session
PendingAfterStartKept(id) == pendingSessions

\* this.pendingSessions.delete(request.sessionID) (line 288)
PendingAfterStart(id) == pendingSessions \ {id}

\* stopStream without this.activeSessions.delete(sessionID)
ActiveAfterStopKept(id) == activeSessions

\* stopStream deleting every entry of this.activeSessions
ActiveAfterStopAll(id) == [s \in SessionIds |-> 0]

\* this.activeSessions.delete(sessionID) (line 581)
ActiveAfterStop(id) == [activeSessions EXCEPT ![id] = 0]

\* stopStream(sessionID) (lines 571-582): no session.socket, session.timeout,
\* audioProcess or returnProcess is ever assigned, so only videoProcess acts
StopStream(id) ==
  IF activeSessions[id] = 0
  THEN UNCHANGED <<activeSessions, liveProcs>>
  ELSE LET p == activeSessions[id]
       IN /\ liveProcs' = IF liveProcs[p].alive
                          THEN [liveProcs EXCEPT ![p].signals = Append(@, "SIGKILL")]
                          ELSE liveProcs
          /\ activeSessions' = ActiveAfterStop(id)

\* prepareStream(request, callback) (lines 229-260)
PrepareStream(id) ==
  /\ Len(callbacks) < MaxRequests
  /\ pendingSessions' = pendingSessions \cup {id}
  /\ prepared' = [prepared EXCEPT ![id] = @ + 1]
  /\ callbacks' = Append(callbacks, Callback("PREPARE", id, "none", 0))
  /\ UNCHANGED <<activeSessions, liveProcs, liveSource>>
  /\ UNCHANGED <<preVars, boxVars, recVars, evtVars, reqVars, strVars, startVars, negVars, argVars, conVars, rdVars>>

\* handleStreamRequest of type START: startStream (lines 264-266, 280-369);
\* usable tells whether the executable can be spawned.  A START request
\* always carries video, so the guard of lines 291-295 does not fire.
StartStream(id, usable) ==
  /\ Len(callbacks) < MaxRequests
  /\ IF id \notin pendingSessions
     THEN /\ callbacks' = Append(callbacks, Callback("START", id, "Session not found", 0))
          /\ UNCHANGED <<pendingSessions, activeSessions, liveProcs>>
     ELSE /\ pendingSessions' = PendingAfterStart(id)
          /\ IF ~liveSource
             THEN /\ callbacks' = Append(callbacks,
                                         Callback("START", id, "No source configured", 0))
                  /\ UNCHANGED <<activeSessions, liveProcs>>
             ELSE /\ Len(liveProcs) < MaxLiveProcs
                  /\ liveProcs' = Append(liveProcs,
                       [session |-> id, usable |-> usable, alive |-> usable,
                        signals |-> <<>>, notified |-> FALSE])
                  /\ activeSessions' = [activeSessions EXCEPT ![id] = Len(liveProcs) + 1]
                  /\ callbacks' = Append(callbacks,
                                         Callback("START", id, "none", Len(liveProcs) + 1))
  /\ UNCHANGED <<prepared, liveSource>>
  /\ UNCHANGED <<preVars, boxVars, recVars, evtVars, reqVars, strVars, startVars, negVars, argVars, conVars, rdVars>>

\* handleStreamRequest of type STOP (lines 274-277)
StopRequest(id) ==
  /\ Len(callbacks) < MaxRequests
  /\ StopStream(id)
  /\ callbacks' = Append(callbacks, Callback("STOP", id, "none", 0))
  /\ UNCHANGED <<pendingSessions, prepared, liveSource>>
  /\ UNCHANGED <<preVars, boxVars, recVars, evtVars, reqVars, strVars, startVars, negVars, argVars, conVars, rdVars>>

\* the RECONFIGURE case without its break: control falls into the STOP case
ReconfigureFallsThrough(id) == StopStream(id)

\* the RECONFIGURE case of handleStreamRequest (lines 267-272): a debug log
Reconfigure(id) == UNCHANGED <<activeSessions, liveProcs>>

\* handleStreamRequest of type RECONFIGURE (lines 267-272)
ReconfigureRequest(id) ==
  /\ Len(callbacks) < MaxRequests
  /\ Reconfigure(id)
  /\ callbacks' = Append(callbacks, Callback("RECONFIGURE", id, "none", 0))
  /\ UNCHANGED <<pendingSessions, prepared, liveSource>>
  /\ UNCHANGED <<preVars, boxVars, recVars, evtVars, reqVars, strVars, startVars, negVars, argVars, conVars, rdVars>>

\* a live transcoder exits, on its own or because of SIGKILL
LiveProcessExits(p) ==
  /\ liveProcs[p].alive
  /\ liveProcs' = [liveProcs EXCEPT ![p].alive = FALSE]
  /\ UNCHANGED <<pendingSessions, activeSessions, callbacks, prepared, liveSource>>
  /\ UNCHANGED <<preVars, boxVars, recVars, evtVars, reqVars, strVars, startVars, negVars, argVars, conVars, rdVars>>

\* ffmpeg.on('error') of a process that could not be spawned (line 365) and
\* ffmpeg.on('close') of a process that has exited (line 366): both call
\* stopStream with the session id of the START request
LiveProcessEvent(p) ==
  /\ ~liveProcs[p].alive
  /\ ~liveProcs[p].notified
  /\ LET id == liveProcs[p].session
         q == activeSessions[id]
     IN /\ activeSessions' = IF q = 0 THEN activeSessions ELSE ActiveAfterStop(id)
        /\ liveProcs' = [i \in 1..Len(liveProcs) |->
             IF i = p THEN [liveProcs[i] EXCEPT !.notified = TRUE]
             ELSE IF i = q /\ liveProcs[i].alive
                  THEN [liveProcs[i] EXCEPT !.signals = Append(@, "SIGKILL")]
                  ELSE liveProcs[i]]
  /\ UNCHANGED <<pendingSessions, callbacks, prepared, liveSource>>
  /\ UNCHANGED <<preVars, boxVars, recVars, evtVars, reqVars, strVars, startVars, negVars, argVars, conVars, rdVars>>

\* a StreamingDelegate after construction
LiveIdle ==
  /\ pendingSessions = {}
  /\ activeSessions = [s \in SessionIds |-> 0]
  /\ liveProcs = <<>>
  /\ callbacks = <<>>
  /\ prepared = [s \in SessionIds |-> 0]
  /\ liveSource = FALSE

----------------------------------------------------------------------------
(* StreamingDelegate: resolution and bitrate negotiation (part_002).       *)
(* A configuration value that is not set is 0 (falsy, like undefined); a   *)
(* resolution mode that is not set is "unset".                             *)

\* the HomeKit limits imported from ../settings (part_002:18-22)
HOMEKIT_MAX_WIDTH == 1920
HOMEKIT_MAX_HEIGHT == 1080

\* the requests HomeKit makes: [width, height, max_bit_rate]
VideoRequests ==
  [width : {640, 1920, 2560}, height : {360, 1080, 1440},
   max_bit_rate : {100, 1000, 5000}]

\* the custom dimensions a configuration has: both, none, or only one
CustomDimensions == {<<0, 0>>, <<1280, 720>>, <<2560, 1440>>, <<1280, 0>>}

\* the effective this.videoConfig (part_002:73)
VideoConfigs ==
  {[maxWidth |-> mw, maxHeight |-> mh, resolutionMode |-> mode,
    customWidth |-> cd[1], customHeight |-> cd[2],
    maxBitrate |-> maxb, minBitrate |-> minb] :
     mw \in {0, 1280, 1920, 3840}, mh \in {0, 720, 1080, 2160},
     mode \in {"unset", "adaptive", "force-max", "force-custom"},
     cd \in CustomDimensions, maxb \in {0, 299, 2000}, minb \in {0, 300, 4000}}

\* Math.min
Min2(a, b) == IF a < b THEN a ELSE b

\* a || b on numbers
OrElse(a, b) == IF a # 0 THEN a ELSE b

\* part_002:103-104 without the comparison: the request passes unclamped
ClampNone(requested, max) == requested

\* part_002:103-104: if (requested > max) requested = max
ClampTo(requested, max) == IF requested > max THEN max ELSE requested

\* determineResolution (part_002:76-110): [width, height, errors], errors
\* counting the log.error calls made
determineResolution(cfg, request, isSnapshot) ==
  LET maxWidth == Min2(OrElse(cfg.maxWidth, HOMEKIT_MAX_WIDTH), HOMEKIT_MAX_WIDTH)
      maxHeight == Min2(OrElse(cfg.maxHeight, HOMEKIT_MAX_HEIGHT), HOMEKIT_MAX_HEIGHT)
      resolutionMode == IF cfg.resolutionMode = "unset" THEN "adaptive"
                        ELSE cfg.resolutionMode
      forced == ~isSnapshot /\ resolutionMode # "adaptive"
      custom == cfg.customWidth # 0 /\ cfg.customHeight # 0
      requestedWidth ==
        IF forced /\ resolutionMode = "force-max" THEN maxWidth
        ELSE IF forced /\ resolutionMode = "force-custom" /\ custom
             THEN cfg.customWidth
        ELSE request.width
      requestedHeight ==
        IF forced /\ resolutionMode = "force-max" THEN maxHeight
        ELSE IF forced /\ resolutionMode = "force-custom" /\ custom
             THEN cfg.customHeight
        ELSE request.height
  IN [width |-> ClampTo(requestedWidth, maxWidth),
      height |-> ClampTo(requestedHeight, maxHeight),
      errors |-> IF forced /\ resolutionMode = "force-custom" /\ ~custom
                 THEN 1 ELSE 0]

\* part_002:300-301 with the minimum applied only when it is below the maximum
ClampBitrateMaxWins(cfg, bitrate) ==
  LET capped == IF cfg.maxBitrate # 0 /\ bitrate > cfg.maxBitrate
                THEN cfg.maxBitrate ELSE bitrate
  IN IF cfg.minBitrate # 0 /\ capped < cfg.minBitrate
        /\ (cfg.maxBitrate = 0 \/ cfg.minBitrate <= cfg.maxBitrate)
     THEN cfg.minBitrate ELSE capped

\* startStream, the bitrate clamp (part_002:299-301)
ClampBitrate(cfg, bitrate) ==
  LET capped == IF cfg.maxBitrate # 0 /\ bitrate > cfg.maxBitrate
                THEN cfg.maxBitrate ELSE bitrate
  IN IF cfg.minBitrate # 0 /\ capped < cfg.minBitrate
     THEN cfg.minBitrate ELSE capped

\* nothing negotiated yet
NoResult == [kind |-> "none", width |-> 0, height |-> 0, bitrate |-> 0, errors |-> 0]

\* startStream (part_002:297-301): the resolution and bitrate of a live stream
NegotiateStream ==
  /\ negotiated.kind = "none"
  /\ LET resolution == determineResolution(videoConfig, videoRequest, FALSE)
     IN negotiated' = [kind |-> "stream", width |-> resolution.width,
                       height |-> resolution.height,
                       bitrate |-> ClampBitrate(videoConfig, videoRequest.max_bit_rate),
                       errors |-> resolution.errors]
  /\ UNCHANGED <<videoRequest, videoConfig>>
  /\ UNCHANGED <<preVars, boxVars, recVars, evtVars, reqVars, strVars, startVars, liveVars,
                 argVars, conVars, rdVars>>

\* handleSnapshotRequest (part_002:178): the resolution of a snapshot
NegotiateSnapshot ==
  /\ negotiated.kind = "none"
  /\ LET resolution == determineResolution(videoConfig, videoRequest, TRUE)
     IN negotiated' = [kind |-> "snapshot", width |-> resolution.width,
                       height |-> resolution.height, bitrate |-> 0,
                       errors |-> resolution.errors]
  /\ UNCHANGED <<videoRequest, videoConfig>>
  /\ UNCHANGED <<preVars, boxVars, recVars, evtVars, reqVars, strVars, startVars, liveVars,
                 argVars, conVars, rdVars>>

----------------------------------------------------------------------------
(* StreamingDelegate.buildFfmpegArgs: the video flags (part_002:371-526).   *)
(* A configuration string that is not set is "unset".                      *)

\* the effective videoConfig fields buildFfmpegArgs reads for the video flags
EncoderConfigs ==
  [encoder : {"unset", "software", "vaapi", "amf", "quicksync", "nvenc",
              "videotoolbox", "v4l2"},
   vcodec : {"unset", "h264_vaapi", "hevc_nvenc", "copy"},
   encoderOptions : {"unset", "-preset fast"},
   qualityProfile : {"unset", "speed", "quality", "balanced", "custom"}]

\* const encoder = this.videoConfig.encoder || 'software' (line 373)
EncoderOf(cfg) == IF cfg.encoder = "unset" THEN "software" ELSE cfg.encoder

\* the vcodec in use (lines 376-386)
VcodecOf(cfg) ==
  IF cfg.vcodec # "unset" THEN cfg.vcodec
  ELSE CASE EncoderOf(cfg) = "vaapi" -> "h264_vaapi"
         [] EncoderOf(cfg) = "amf" -> "h264_amf"
         [] EncoderOf(cfg) = "quicksync" -> "h264_qsv"
         [] EncoderOf(cfg) = "nvenc" -> "h264_nvenc"
         [] EncoderOf(cfg) = "videotoolbox" -> "h264_videotoolbox"
         [] EncoderOf(cfg) = "v4l2" -> "h264_v4l2m2m"
         [] OTHER -> "libx264"

\* the codecs whose branch reads the quality profile (lines 401, 418, 435,
\* 452): vcodec.includes('nvenc') for the last
ProfiledCodec(vcodec) ==
  vcodec \in {"h264_vaapi", "h264_amf", "h264_qsv", "h264_nvenc", "hevc_nvenc"}

\* gopSize (lines 394, 397-473): 0 for "no -g flag"
GopSize(cfg) ==
  IF cfg.encoderOptions = "unset" /\ ProfiledCodec(VcodecOf(cfg))
  THEN CASE cfg.qualityProfile = "speed" -> 25
         [] cfg.qualityProfile = "quality" -> 13
         [] cfg.qualityProfile = "balanced" -> 19
         [] OTHER -> 0
  ELSE 0

\* bframes (lines 395, 397-473): -1 for "no -bf flag"
Bframes(cfg) ==
  IF cfg.encoderOptions = "unset" /\ ProfiledCodec(VcodecOf(cfg))
  THEN CASE cfg.qualityProfile = "speed" -> 0
         [] cfg.qualityProfile = "quality" -> 2
         [] cfg.qualityProfile = "balanced" -> 0
         [] OTHER -> -1
  ELSE -1

\* pixFmt (line 512): ' -pix_fmt yuv420p' is emitted
PixFmt(encoder) == encoder = "software"

\* colorRange without the test for VAAPI
ColorRangeAnyHardware(encoder) == encoder # "software"

\* colorRange (line 513): ' -color_range mpeg' is emitted
ColorRange(encoder) == encoder # "software" /\ encoder # "vaapi"

\* nothing built yet
NoArgs ==
  [built |-> FALSE, vcodec |-> "", pixFmt |-> FALSE, colorRange |-> FALSE,
   bf |-> -1, g |-> 0]

\* buildFfmpegArgs (lines 371-526): the flags it adds after -codec:v; bf and
\* g hold the values of -bf and -g, -1 and 0 when the flag is left out
BuildFfmpegArgs ==
  /\ ~builtArgs.built
  /\ builtArgs' =
       [built |-> TRUE, vcodec |-> VcodecOf(encoderConfig),
        pixFmt |-> PixFmt(EncoderOf(encoderConfig)),
        colorRange |-> ColorRange(EncoderOf(encoderConfig)),
        bf |-> Bframes(encoderConfig), g |-> GopSize(encoderConfig)]
  /\ UNCHANGED encoderConfig
  /\ UNCHANGED <<preVars, boxVars, recVars, evtVars, reqVars, strVars, startVars, liveVars,
                 negVars, conVars, rdVars>>

\* no argument string is being built
ArgIdle ==
  /\ encoderConfig = [encoder |-> "unset", vcodec |-> "unset",
                      encoderOptions |-> "unset", qualityProfile |-> "unset"]
  /\ builtArgs = NoArgs

----------------------------------------------------------------------------
(* RecordingDelegate with videoConfig.prebuffer set: the requests of        *)
(* several stream ids, each "idle", "awaitStart" (in startPreBuffer),      *)
(* "awaitVideo" (in preBuffer.getVideo) or "subscribed"                     *)

MaxOverlap == 4
RdStreamIds == 1..MaxOverlap

\* startPreBuffer without the test of this.preBuffer
NeedsPreBufferAlways(pb) == TRUE

\* if (!this.preBuffer) (recordingDelegate.ts:220)
NeedsPreBuffer(pb) == pb = 0

\* handleRecordingStreamRequest(r) up to its first await that waits for an
\* event (lines 89-106, 216-233, 301-306): startPreBuffer constructs the
\* PreBuffer and awaits its start, or finds one and the request goes on to
\* preBuffer.getVideo
RdRequest(r) ==
  /\ rdRequests[r].pc = "idle"
  /\ IF NeedsPreBuffer(rdPreBuffer)
     THEN /\ rdInstances' = rdInstances + 1
          /\ rdPreBuffer' = rdInstances + 1
          /\ IF rdPreBufferSession = 0
             THEN rdRequests' = [rdRequests EXCEPT ![r] = [pc |-> "awaitStart", uses |-> 0]]
             ELSE rdRequests' = [rdRequests EXCEPT
                                   ![r] = [pc |-> "awaitVideo", uses |-> rdInstances + 1]]
     ELSE /\ rdRequests' = [rdRequests EXCEPT
                              ![r] = [pc |-> "awaitVideo", uses |-> rdPreBuffer]]
          /\ UNCHANGED <<rdInstances, rdPreBuffer>>
  /\ UNCHANGED <<rdPreBufferSession, rdCaptures>>
  /\ UNCHANGED <<preVars, boxVars, recVars, evtVars, reqVars, strVars, startVars, liveVars,
                 negVars, argVars, conVars>>

\* this.preBuffer.startPreBuffer() settles (part_001:51-135): it has spawned
\* the capture process and its session is stored (line 229), or it failed
\* before the spawn and the request logs the error (lines 103-105); the
\* request goes on to preBuffer.getVideo (lines 303-306)
RdPreBufferStarted(r, ok) ==
  /\ rdRequests[r].pc = "awaitStart"
  /\ IF ok
     THEN /\ rdCaptures' = rdCaptures + 1
          /\ rdPreBufferSession' = rdCaptures + 1
     ELSE UNCHANGED <<rdCaptures, rdPreBufferSession>>
  /\ rdRequests' = [rdRequests EXCEPT ![r] = [pc |-> "awaitVideo", uses |-> rdPreBuffer]]
  /\ UNCHANGED <<rdPreBuffer, rdInstances>>
  /\ UNCHANGED <<preVars, boxVars, recVars, evtVars, reqVars, strVars, startVars, liveVars,
                 negVars, argVars, conVars>>

\* preBuffer.getVideo() resolves (line 306): the request reads from the
\* PreBuffer it called
RdGetVideo(r) ==
  /\ rdRequests[r].pc = "awaitVideo"
  /\ rdRequests' = [rdRequests EXCEPT ![r].pc = "subscribed"]
  /\ UNCHANGED <<rdPreBuffer, rdPreBufferSession, rdInstances, rdCaptures>>
  /\ UNCHANGED <<preVars, boxVars, recVars, evtVars, reqVars, strVars, startVars, liveVars,
                 negVars, argVars, conVars>>

\* the recording ends; a later request may use the stream id again
RdRequestEnds(r) ==
  /\ rdRequests[r].pc = "subscribed"
  /\ rdRequests' = [rdRequests EXCEPT ![r] = [pc |-> "idle", uses |-> 0]]
  /\ UNCHANGED <<rdPreBuffer, rdPreBufferSession, rdInstances, rdCaptures>>
  /\ UNCHANGED <<preVars, boxVars, recVars, evtVars, reqVars, strVars, startVars, liveVars,
                 negVars, argVars, conVars>>

\* a RecordingDelegate after construction (lines 29-30)
RdIdle ==
  /\ rdPreBuffer = 0
  /\ rdPreBufferSession = 0
  /\ rdInstances = 0
  /\ rdCaptures = 0
  /\ rdRequests = [r \in RdStreamIds |-> [pc |-> "idle", uses |-> 0]]

----------------------------------------------------------------------------
(* DahuaEvents: the event connection (events.ts:30-66, 205-214).            *)

MaxConns == 3
MaxLogged == 7

L_AlreadyRunning == "Event stream already running"
L_Starting == "Starting motion event stream..."
L_Stopping == "Stopping motion event stream"
L_Error == "Event stream error"
L_Closed == "Event stream closed"

\* api.openEventStream: a new connection to the camera is open and its handle
\* is returned
OpenEventStream ==
  /\ nConns' = nConns + 1
  /\ openConns' = openConns \cup {nConns + 1}
  /\ eventStream' = nConns + 1

\* start() (events.ts:30-55)
EventsStart ==
  /\ Len(logged) < MaxLogged
  /\ IF eventStream # 0
     THEN /\ logged' = Append(logged, L_AlreadyRunning)
          /\ UNCHANGED <<eventStream, openConns, nConns>>
     ELSE /\ nConns < MaxConns
          /\ logged' = Append(logged, L_Starting)
          /\ OpenEventStream
  /\ UNCHANGED <<preVars, boxVars, recVars, evtVars, reqVars, strVars, startVars, liveVars,
                 negVars, argVars, rdVars>>

\* stop() (events.ts:60-66)
EventsStop ==
  /\ Len(logged) < MaxLogged
  /\ eventStream # 0
  /\ logged' = Append(logged, L_Stopping)
  /\ openConns' = openConns \ {eventStream}
  /\ eventStream' = 0
  /\ UNCHANGED nConns
  /\ UNCHANGED <<preVars, boxVars, recVars, evtVars, reqVars, strVars, startVars, liveVars,
                 negVars, argVars, rdVars>>

\* the connection fails: handleError (events.ts:205-207)
ConnectionError(c) ==
  /\ Len(logged) < MaxLogged
  /\ c \in openConns
  /\ openConns' = openConns \ {c}
  /\ logged' = Append(logged, L_Error)
  /\ UNCHANGED <<eventStream, nConns>>
  /\ UNCHANGED <<preVars, boxVars, recVars, evtVars, reqVars, strVars, startVars, liveVars,
                 negVars, argVars, rdVars>>

\* the camera ends the connection: handleClose (events.ts:212-214)
ConnectionClose(c) ==
  /\ Len(logged) < MaxLogged
  /\ c \in openConns
  /\ openConns' = openConns \ {c}
  /\ logged' = Append(logged, L_Closed)
  /\ UNCHANGED <<eventStream, nConns>>
  /\ UNCHANGED <<preVars, boxVars, recVars, evtVars, reqVars, strVars, startVars, liveVars,
                 negVars, argVars, rdVars>>

\* a DahuaEvents instance that was never started
ConIdle ==
  /\ eventStream = 0
  /\ openConns = {}
  /\ nConns = 0
  /\ logged = <<>>

\* no request is being negotiated
NegIdle ==
  /\ videoRequest = [width |-> 0, height |-> 0, max_bit_rate |-> 0]
  /\ videoConfig = [maxWidth |-> 0, maxHeight |-> 0, resolutionMode |-> "unset",
                    customWidth |-> 0, customHeight |-> 0,
                    maxBitrate |-> 0, minBitrate |-> 0]
  /\ negotiated = NoResult

----------------------------------------------------------------------------
(* DahuaEvents: handleChunk, parseEvent, notifyListeners (events.ts).       *)
(* Strings are sequences of one-character strings.                         *)

MaxChunks == 2         \* chunks the event connection delivers a text in

\* the safety cap of handleChunk (events.ts:136)
BufferCap == 100000

S_Code == <<"C", "o", "d", "e", "=">>
S_Action == <<";", "a", "c", "t", "i", "o", "n", "=">>
S_Index == <<";", "i", "n", "d", "e", "x", "=">>
S_IndexEq == <<"i", "n", "d", "e", "x", "=">>
S_Boundary == <<"-", "-">>
S_Newline == <<"\n">>
S_start == <<"s", "t", "a", "r", "t">>

S_VideoMotion == <<"V", "i", "d", "e", "o", "M", "o", "t", "i", "o", "n">>
S_CrossLineDetection == <<"C", "r", "o", "s", "s", "L", "i", "n", "e", "D", "e", "t", "e", "c", "t", "i", "o", "n">>
S_CrossRegionDetection == <<"C", "r", "o", "s", "s", "R", "e", "g", "i", "o", "n", "D", "e", "t", "e", "c", "t", "i", "o", "n">>
S_AlarmLocal == <<"A", "l", "a", "r", "m", "L", "o", "c", "a", "l">>
S_VideoLoss == <<"V", "i", "d", "e", "o", "L", "o", "s", "s">>

\* the list of parseEvent (events.ts:158-163)
dahuaMotionEvents ==
  {S_VideoMotion, S_CrossLineDetection, S_CrossRegionDetection, S_AlarmLocal}

Digits == <<"0", "1", "2", "3", "4", "5", "6", "7", "8", "9">>
IsDigit(c) == \E d \in 1..10 : Digits[d] = c
DigitValue(c) == (CHOOSE d \in 1..10 : Digits[d] = c) - 1

UpperCase == <<"A", "B", "C", "D", "E", "F", "G", "H", "I", "J", "K", "L", "M", "N", "O", "P", "Q", "R", "S", "T", "U", "V", "W", "X", "Y", "Z">>
LowerCase == <<"a", "b", "c", "d", "e", "f", "g", "h", "i", "j", "k", "l", "m", "n", "o", "p", "q", "r", "s", "t", "u", "v", "w", "x", "y", "z">>

\* String.prototype.toLowerCase, character by character
LowerChar(c) ==
  IF \E i \in 1..26 : UpperCase[i] = c
  THEN LowerCase[CHOOSE i \in 1..26 : UpperCase[i] = c]
  ELSE c

toLowerCase(str) == [i \in 1..Len(str) |-> LowerChar(str[i])]

\* parseInt(str, 10) of a string of digits
RECURSIVE parseInt(_)
parseInt(str) ==
  IF str = <<>> THEN 0
  ELSE parseInt(SubSeq(str, 1, Len(str) - 1)) * 10 + DigitValue(str[Len(str)])

\* the literal lit stands in str at position p (1-based)
LitAt(str, p, lit) ==
  /\ p + Len(lit) - 1 <= Len(str)
  /\ SubSeq(str, p, p + Len(lit) - 1) = lit

\* String.prototype.indexOf(lit, from) and lastIndexOf(lit), 1-based
\* positions, 0 for "not found"
IndexOf(str, lit, from) ==
  IF \E p \in from..Len(str) : LitAt(str, p, lit)
  THEN CHOOSE p \in from..Len(str) :
         LitAt(str, p, lit) /\ \A q \in from..(p - 1) : ~LitAt(str, q, lit)
  ELSE 0

LastIndexOf(str, lit) ==
  IF \E p \in 1..Len(str) : LitAt(str, p, lit)
  THEN CHOOSE p \in 1..Len(str) :
         LitAt(str, p, lit) /\ \A q \in (p + 1)..Len(str) : ~LitAt(str, q, lit)
  ELSE 0

\* end (exclusive) of the longest run of characters other than ';' from p:
\* the greedy [^;]+
RECURSIVE NonSemiEnd(_, _)
NonSemiEnd(str, p) ==
  IF p <= Len(str) /\ str[p] # ";" THEN NonSemiEnd(str, p + 1) ELSE p

\* end (exclusive) of the longest run of digits from p: the greedy \d+
RECURSIVE DigitsEnd(_, _)
DigitsEnd(str, p) ==
  IF p <= Len(str) /\ IsDigit(str[p]) THEN DigitsEnd(str, p + 1) ELSE p

\* /Code=([^;]+);action=([^;]+);index=(\d+)/ anchored at position p.  Each
\* class excludes the character that follows it in the pattern, so the greedy
\* runs are the only candidates: [ok, groups 1-3, end (exclusive)].
MatchAt(str, p) ==
  LET t1 == p + Len(S_Code)
      t2 == NonSemiEnd(str, t1)
      a1 == t2 + Len(S_Action)
      a2 == NonSemiEnd(str, a1)
      d1 == a2 + Len(S_Index)
      d2 == DigitsEnd(str, d1)
  IN IF /\ LitAt(str, p, S_Code) /\ t2 > t1
        /\ LitAt(str, t2, S_Action) /\ a2 > a1
        /\ LitAt(str, a2, S_Index) /\ d2 > d1
     THEN [ok |-> TRUE, eventType |-> SubSeq(str, t1, t2 - 1),
           action |-> SubSeq(str, a1, a2 - 1),
           index |-> SubSeq(str, d1, d2 - 1), end |-> d2]
     ELSE [ok |-> FALSE, eventType |-> <<>>, action |-> <<>>, index |-> <<>>, end |-> p]

\* the matches of `while ((match = eventRegex.exec(this.buffer)) !== null)`
\* with the g flag: leftmost match at or after lastIndex, then on from its end
RECURSIVE Matches(_, _)
Matches(str, from) ==
  IF \E p \in from..Len(str) : MatchAt(str, p).ok
  THEN LET p == CHOOSE q \in from..Len(str) :
                  MatchAt(str, q).ok /\ \A r \in from..(q - 1) : ~MatchAt(str, r).ok
           m == MatchAt(str, p)
       IN <<m>> \o Matches(str, m.end)
  ELSE <<>>

\* action === 'start' without toLowerCase
IsActiveCaseSensitive(action) == action = S_start

\* action.toLowerCase() === 'start' (events.ts:151)
IsActive(action) == toLowerCase(action) = S_start

\* parseEvent without the check of the event type (events.ts:165-170)
ParseEventUnfiltered(m) ==
  <<[channel |-> parseInt(m.index) + 1, eventType |-> m.eventType,
     active |-> IsActive(m.action)]>>

\* parseEvent (events.ts:145-177): the notifyListeners call it makes, if any
ParseEvent(m) ==
  IF m.eventType \in dahuaMotionEvents
  THEN <<[channel |-> parseInt(m.index) + 1, eventType |-> m.eventType,
          active |-> IsActive(m.action)]>>
  ELSE <<>>

RECURSIVE ParseEvents(_)
ParseEvents(ms) ==
  IF ms = <<>> THEN <<>> ELSE ParseEvent(ms[1]) \o ParseEvents(Tail(ms))

\* notifyListeners (events.ts:182-200): the callbacks registered for the
\* channel, in registration order
RECURSIVE CallbacksOf(_, _)
CallbacksOf(ls, channel) ==
  IF ls = <<>> THEN <<>>
  ELSE (IF ls[1].channel = channel THEN <<ls[1].cb>> ELSE <<>>)
       \o CallbacksOf(Tail(ls), channel)

\* the callbacks that throw when they are called
Throwing == {"cb1"}

\* the loop of notifyListeners without its try/catch: the first exception
\* ends the loop (and is caught by parseEvent, events.ts:174-176)
NotifiedUntilThrow(cbs) ==
  IF \E i \in 1..Len(cbs) : cbs[i] \in Throwing
  THEN SubSeq(cbs, 1, CHOOSE i \in 1..Len(cbs) :
                        cbs[i] \in Throwing /\ \A j \in 1..(i - 1) : cbs[j] \notin Throwing)
  ELSE cbs

\* the loop of notifyListeners (events.ts:186-192): each callback is called
\* inside its own try/catch, so all of them are called
Notified(cbs) == cbs

RECURSIVE Invocations(_)
Invocations(evs) ==
  IF evs = <<>> THEN <<>>
  ELSE LET cbs == Notified(CallbacksOf(listeners, evs[1].channel))
       IN [i \in 1..Len(cbs) |->
             [cb |-> cbs[i], channel |-> evs[1].channel,
              eventType |-> evs[1].eventType, active |-> evs[1].active]]
          \o Invocations(Tail(evs))

\* "Keep only unparsed data in buffer" (events.ts:116-134)
Trimmed(str) ==
  LET lastMatch == LastIndexOf(str, S_IndexEq)
      nextBoundary == IF lastMatch > 0 THEN IndexOf(str, S_Boundary, lastMatch) ELSE 0
      nextNewline == IF lastMatch > 0 THEN IndexOf(str, S_Newline, lastMatch) ELSE 0
      cutPoint == IF nextBoundary > 0 /\ nextNewline > 0
                  THEN (IF nextBoundary < nextNewline THEN nextBoundary ELSE nextNewline)
                  ELSE IF nextBoundary > 0 THEN nextBoundary
                  ELSE nextNewline
  IN IF lastMatch > 0 /\ cutPoint > lastMatch
     THEN SubSeq(str, cutPoint, Len(str))
     ELSE str

\* a long run of text: the element Filler of a string stands for FillerRun
\* consecutive characters, none of them one the parser looks for
Filler == "FILL"
FillerRun == 50000

\* String.prototype.length
RECURSIVE StrLength(_)
StrLength(str) ==
  IF str = <<>> THEN 0
  ELSE (IF str[1] = Filler THEN FillerRun ELSE 1) + StrLength(Tail(str))

\* handleChunk without the overflow check (events.ts:136-139)
Uncapped(kept) == kept

\* the overflow check of handleChunk (events.ts:136-139)
Capped(kept) == IF StrLength(kept) > BufferCap THEN <<>> ELSE kept

\* handleChunk(chunk) (events.ts:96-140)
HandleChunk(chunk) ==
  LET appended == buffer \o chunk
      events == ParseEvents(Matches(appended, 1))
      kept == Trimmed(appended)
  IN /\ dispatched' = dispatched \o events
     /\ invoked' = invoked \o Invocations(events)
     /\ buffer' = Capped(kept)

\* the event connection delivers the next n characters of its text
Chunk(n) ==
  /\ nChunks < MaxChunks
  /\ n \in 1..Len(feed)
  /\ nChunks + 1 = MaxChunks => n = Len(feed)
  /\ HandleChunk(SubSeq(feed, 1, n))
  /\ feed' = SubSeq(feed, n + 1, Len(feed))
  /\ nChunks' = nChunks + 1
  /\ UNCHANGED <<listeners, record>>
  /\ UNCHANGED <<preVars, boxVars, recVars, reqVars, strVars, startVars, liveVars, negVars, argVars, conVars, rdVars>>

\* chunks of an event connection that carries long runs of other text
MaxLongChunks == 3
LongChunks ==
  { <<Filler>>, <<Filler, Filler>>, <<"x">>, S_IndexEq \o <<"0">>, S_Newline,
    S_Boundary }

\* the event connection delivers any of these chunks
LongChunk(chunk) ==
  /\ nChunks < MaxLongChunks
  /\ HandleChunk(chunk)
  /\ nChunks' = nChunks + 1
  /\ UNCHANGED <<listeners, record, feed>>
  /\ UNCHANGED <<preVars, boxVars, recVars, reqVars, strVars, startVars, liveVars, negVars, argVars, conVars, rdVars>>

\* onMotion and offMotion calls between the lines of an event connection
MaxListeners == 2
MaxLines == 1
ListenerChannels == {1, 5}
ListenerCallbacks == {"cb1", "cb2"}

\* one record and its line end
Line(type, index) ==
  S_Code \o type \o S_Action \o <<"S", "t", "a", "r", "t">> \o S_Index \o index
  \o S_Newline

\* the chunks delivered: one line, or two lines at once
LineChunks ==
  { Line(S_VideoMotion, <<"4">>),
    Line(S_AlarmLocal, <<"4">>) \o Line(S_CrossLineDetection, <<"4">>) }

\* onMotion(channelId, callback) (events.ts:71-76)
OnMotion(channelId, callback) ==
  /\ Len(listeners) < MaxListeners
  /\ listeners' = Append(listeners, [channel |-> channelId, cb |-> callback])
  /\ UNCHANGED <<buffer, dispatched, invoked, feed, record, nChunks>>
  /\ UNCHANGED <<preVars, boxVars, recVars, reqVars, strVars, startVars, liveVars, negVars, argVars, conVars, rdVars>>

\* callbacks.indexOf(callback) within the channel's list, as a position in
\* listeners; 0 for "not found"
IndexOfListener(channelId, callback) ==
  LET hits == {i \in 1..Len(listeners) :
                 listeners[i] = [channel |-> channelId, cb |-> callback]}
  IN IF hits = {} THEN 0 ELSE CHOOSE i \in hits : \A j \in hits : i <= j

\* offMotion(channelId, callback) (events.ts:81-89)
OffMotion(channelId, callback) ==
  /\ LET index == IndexOfListener(channelId, callback)
     IN listeners' = IF index > 0
                     THEN SubSeq(listeners, 1, index - 1)
                          \o SubSeq(listeners, index + 1, Len(listeners))
                     ELSE listeners
  /\ UNCHANGED <<buffer, dispatched, invoked, feed, record, nChunks>>
  /\ UNCHANGED <<preVars, boxVars, recVars, reqVars, strVars, startVars, liveVars, negVars, argVars, conVars, rdVars>>

\* the event connection delivers whole lines as one chunk
LineChunk(chunk) ==
  /\ nChunks < MaxLines
  /\ HandleChunk(chunk)
  /\ nChunks' = nChunks + 1
  /\ UNCHANGED <<listeners, record, feed>>
  /\ UNCHANGED <<preVars, boxVars, recVars, reqVars, strVars, startVars, liveVars, negVars, argVars, conVars, rdVars>>

\* what the camera may send: Code=<type>;action=<action>;index=<n>
RecordTypes == dahuaMotionEvents \cup {S_VideoLoss}
RecordActions ==
  { [chars |-> <<"S", "t", "a", "r", "t">>, start |-> TRUE],
    [chars |-> <<"S", "T", "A", "R", "T">>, start |-> TRUE],
    [chars |-> <<"s", "t", "a", "r", "t">>, start |-> TRUE],
    [chars |-> <<"S", "t", "o", "p">>, start |-> FALSE],
    [chars |-> <<"P", "u", "l", "s", "e">>, start |-> FALSE] }
RecordIndexes ==
  { [chars |-> <<"0">>, value |-> 0],
    [chars |-> <<"4">>, value |-> 4],
    [chars |-> <<"1", "2">>, value |-> 12] }

\* what follows the record on the wire: nothing yet, or the line end
RecordTails == {<<>>, S_Newline}

RecordText(r) ==
  S_Code \o r.type \o S_Action \o r.action.chars \o S_Index \o r.index.chars
  \o r.tail

\* registrations made with onMotion (events.ts:71-76) before the stream starts
Registries ==
  { <<>>,
    <<[channel |-> 5, cb |-> "cb1"], [channel |-> 1, cb |-> "cb2"],
      [channel |-> 5, cb |-> "cb3"], [channel |-> 13, cb |-> "cb2"]>> }

\* no event stream
EvtIdle ==
  /\ buffer = <<>>
  /\ listeners = <<>>
  /\ dispatched = <<>>
  /\ invoked = <<>>
  /\ feed = <<>>
  /\ record = [type |-> <<>>, action |-> [chars |-> <<>>, start |-> FALSE],
               index |-> [chars |-> <<>>, value |-> 0], tail |-> <<>>]
  /\ nChunks = 0

----------------------------------------------------------------------------
(* PreBuffer *)

\* Evict with `if` in place of `while`: at most one entry leaves per iteration
EvictOnce(buf, t) ==
  IF Len(buf) > 0 /\ buf[1].time < t - DEFAULT_PREBUFFER_DURATION
  THEN Tail(buf)
  ELSE buf

\* while (prebufferFmp4.length && prebufferFmp4[0].time < now - D) shift()
RECURSIVE Evict(_, _)
Evict(buf, t) ==
  IF Len(buf) > 0 /\ buf[1].time < t - DEFAULT_PREBUFFER_DURATION
  THEN Evict(Tail(buf), t)
  ELSE buf

\* SelectBacklog without `needMoof = false`: every non-moof entry is skipped
RECURSIVE SelectBacklogMoofOnly(_, _, _, _)
SelectBacklogMoofOnly(buf, t, requestedPrebuffer, needMoof) ==
  IF buf = <<>> THEN <<>>
  ELSE IF buf[1].time < t - requestedPrebuffer
       THEN SelectBacklogMoofOnly(Tail(buf), t, requestedPrebuffer, needMoof)
  ELSE IF needMoof /\ buf[1].atom.type # "moof"
       THEN SelectBacklogMoofOnly(Tail(buf), t, requestedPrebuffer, needMoof)
  ELSE <<buf[1].atom>> \o SelectBacklogMoofOnly(Tail(buf), t, requestedPrebuffer, needMoof)

\* the for-loop of getVideo over prebufferFmp4 (lines 166-180): the atoms it
\* writes, given the connection time t and the requested window
RECURSIVE SelectBacklog(_, _, _, _)
SelectBacklog(buf, t, requestedPrebuffer, needMoof) ==
  IF buf = <<>> THEN <<>>
  ELSE IF buf[1].time < t - requestedPrebuffer
       THEN SelectBacklog(Tail(buf), t, requestedPrebuffer, needMoof)
  ELSE IF needMoof /\ buf[1].atom.type # "moof"
       THEN SelectBacklog(Tail(buf), t, requestedPrebuffer, needMoof)
  ELSE <<buf[1].atom>> \o SelectBacklog(Tail(buf), t, requestedPrebuffer, FALSE)

\* events.emit('atom', atom) moved into the else branch of the loop: only the
\* atoms that enter prebufferFmp4 are emitted
BroadcastMediaOnly(w, atom) ==
  [s \in Subs |-> IF s \in atomListeners /\ ftyp # NoAtom /\ moov # NoAtom
                  THEN Append(w[s], atom) ELSE w[s]]

\* events.emit('atom', atom): every registered writeAtom writes the atom
Broadcast(w, atom) ==
  [s \in Subs |-> IF s \in atomListeners THEN Append(w[s], atom) ELSE w[s]]

\* Date.now() advances between callbacks
Tick ==
  /\ now < MaxTime
  /\ now' = now + 10000
  /\ UNCHANGED <<ftyp, moov, prebufferFmp4, released, atomListeners, socket,
                 written, arrived, loopNow, subInit, subAt>>
  /\ UNCHANGED ingestion
  /\ UNCHANGED <<boxVars, recVars, evtVars, reqVars, strVars, startVars, liveVars, negVars, argVars, conVars, rdVars>>

\* the loop pushing every atom, the initialization segments too
PushedAlways(atom) == Append(prebufferFmp4, [atom |-> atom, time |-> now])

\* prebufferFmp4 after the if / else if / else of the loop (lines 69-87): only
\* an atom that arrives when ftyp and moov are set is pushed
Pushed(atom) ==
  IF ftyp = NoAtom \/ moov = NoAtom
  THEN prebufferFmp4
  ELSE Append(prebufferFmp4, [atom |-> atom, time |-> now])

\* one iteration of `for await (const atom of parser)` (lines 66-96)
Ingest(type) ==
  /\ Len(arrived) < MaxAtoms
  /\ LET atom == [id |-> Len(arrived) + 1, type |-> type]
     IN /\ ftyp' = IF ftyp = NoAtom THEN atom ELSE ftyp
        /\ moov' = IF ftyp # NoAtom /\ moov = NoAtom THEN atom ELSE moov
        /\ prebufferFmp4' = Evict(Pushed(atom), now)
        /\ written' = Broadcast(written, atom)
        /\ arrived' = Append(arrived, atom)
        /\ loopNow' = now
  /\ UNCHANGED <<now, released, atomListeners, socket, subInit, subAt>>
  /\ UNCHANGED ingestion
  /\ UNCHANGED <<boxVars, recVars, evtVars, reqVars, strVars, startVars, liveVars, negVars, argVars, conVars, rdVars>>

\* the connection callback of the server getVideo creates (lines 141-191)
Connect(s, requestedPrebuffer) ==
  /\ socket[s] = "none"
  /\ LET pre == (IF ftyp # NoAtom THEN <<ftyp>> ELSE <<>>)
                \o (IF moov # NoAtom THEN <<moov>> ELSE <<>>)
     IN /\ written' = [written EXCEPT ![s] =
                         pre \o SelectBacklog(prebufferFmp4, now, requestedPrebuffer, TRUE)]
        /\ subInit' = [subInit EXCEPT ![s] = Len(pre)]
  /\ subAt' = [subAt EXCEPT ![s] = Len(arrived)]
  /\ atomListeners' = atomListeners \cup {s}
  /\ socket' = [socket EXCEPT ![s] = "open"]
  /\ UNCHANGED <<now, ftyp, moov, prebufferFmp4, released, arrived, loopNow>>
  /\ UNCHANGED ingestion
  /\ UNCHANGED <<boxVars, recVars, evtVars, reqVars, strVars, startVars, liveVars, negVars, argVars, conVars, rdVars>>

\* the loop body run for the atom parseFragmentedMP4 has just yielded
\* (lines 65-66): the parser goes on only when the loop asks for the next atom
IngestYielded ==
  /\ ingestion = "running"
  /\ Len(arrived) < Len(yielded)
  /\ Ingest(yielded[Len(arrived) + 1].type)

\* the loop without its try/catch: the error rejects the promise of the
\* async connection callback, which nobody handles
ParserErrorUncaught(state) == "crashed"

\* catch (error) of the loop (lines 97-99): the error is logged
ParserErrorCaught(state) == "ended"

\* the parser has thrown into `for await` (lines 64-99)
LoopCatch ==
  /\ ingestion = "running"
  /\ pc = "failed"
  /\ ingestion' = ParserErrorCaught(ingestion)
  /\ UNCHANGED <<now, ftyp, moov, prebufferFmp4, released, atomListeners, socket,
                 written, arrived, loopNow, subInit, subAt>>
  /\ UNCHANGED <<boxVars, recVars, evtVars, reqVars, strVars, startVars, liveVars, negVars, argVars, conVars, rdVars>>

\* cleanup without removeListener('atom', writeAtom)
AfterCleanupKept(ls, s) == ls

\* cleanup (lines 148-154): the 'atom' listeners once s has cleaned up
AfterCleanup(ls, s) == ls \ {s}

\* cleanup (lines 148-154), run on the socket's 'close' or 'error'
SocketClose(s) ==
  /\ socket[s] = "open"
  /\ atomListeners' = AfterCleanup(atomListeners, s)
  /\ socket' = [socket EXCEPT ![s] = "destroyed"]
  /\ UNCHANGED <<now, ftyp, moov, prebufferFmp4, released, written, arrived,
                 loopNow, subInit, subAt>>
  /\ UNCHANGED ingestion
  /\ UNCHANGED <<boxVars, recVars, evtVars, reqVars, strVars, startVars, liveVars, negVars, argVars, conVars, rdVars>>

\* stop() (lines 202-205): emit('killed') runs every subscriber's cleanup
Stop ==
  /\ atomListeners' = {t \in atomListeners :
                         \A s \in atomListeners : t \in AfterCleanup(atomListeners, s)}
  /\ socket' = [s \in Subs |-> IF s \in atomListeners THEN "destroyed" ELSE socket[s]]
  /\ released' = TRUE
  /\ UNCHANGED <<now, ftyp, moov, prebufferFmp4, written, arrived, loopNow,
                 subInit, subAt>>
  /\ UNCHANGED ingestion
  /\ UNCHANGED <<boxVars, recVars, evtVars, reqVars, strVars, startVars, liveVars, negVars, argVars, conVars, rdVars>>

\* the PreBuffer fields after construction
PreIdle ==
  /\ now = 0
  /\ ftyp = NoAtom
  /\ moov = NoAtom
  /\ prebufferFmp4 = <<>>
  /\ released = FALSE
  /\ atomListeners = {}
  /\ socket = [s \in Subs |-> "none"]
  /\ written = [s \in Subs |-> <<>>]
  /\ arrived = <<>>
  /\ loopNow = 0
  /\ subInit = [s \in Subs |-> 0]
  /\ subAt = [s \in Subs |-> 0]
  /\ ingestion = "running"

InitPre ==
  /\ PreIdle /\ BoxIdle /\ RecIdle /\ EvtIdle
  /\ ReqIdle /\ StrIdle /\ StartIdle /\ LiveIdle /\ NegIdle /\ ArgIdle /\ ConIdle /\ RdIdle

NextPre ==
  \/ Tick
  \/ \E type \in TypesAt(Len(arrived) + 1) : Ingest(type)
  \/ \E s \in Subs, w \in RequestedWindows : Connect(s, w)
  \/ \E s \in Subs : SocketClose(s)
  \/ Stop

SpecPre == InitPre /\ [][NextPre]_vars

\* the ingestion loop of a PreBuffer over parseFragmentedMP4 reading the
\* capture connection, with one subscriber
InitFeed ==
  /\ PreIdle
  /\ RecIdle /\ EvtIdle
  /\ ReqIdle /\ StrIdle /\ StartIdle /\ LiveIdle /\ NegIdle /\ ArgIdle /\ ConIdle /\ RdIdle
  /\ parser = "parseFragmentedMP4"
  /\ boxes \in BoxStreams
  /\ srcLeft = Flatten(boxes)
  /\ rbuf = <<>>
  /\ ended = FALSE
  /\ truncated = FALSE
  /\ endState = "no"
  /\ news = FALSE
  /\ pc = "idle"
  /\ header = <<>>
  /\ length = 0
  /\ yielded = <<>>

\* the source and the stream events act at any time; the parser runs while
\* the loop awaits its next atom
NextFeed ==
  \/ \E n \in 1..Len(srcLeft) : SourcePush(n)
  \/ SourceEnd
  \/ Len(arrived) = Len(yielded) /\ ReadHeader
  \/ Len(arrived) = Len(yielded) /\ ReadPayload
  \/ Len(arrived) = Len(yielded) /\ OnReadable
  \/ OnEnd
  \/ IngestYielded
  \/ LoopCatch
  \/ Connect("sub1", 4000)

SpecFeed == InitFeed /\ [][NextFeed]_vars

\* a parser over a source that was given any sequence of boxes to send
InitBox ==
  /\ PreIdle
  /\ RecIdle
  /\ EvtIdle
  /\ ReqIdle /\ StrIdle /\ StartIdle /\ LiveIdle /\ NegIdle /\ ArgIdle /\ ConIdle /\ RdIdle
  /\ parser \in {"parseFragmentedMP4", "generator"}
  /\ boxes \in BoxStreams
  /\ srcLeft = Flatten(boxes)
  /\ rbuf = <<>>
  /\ ended = FALSE
  /\ truncated = FALSE
  /\ endState = "no"
  /\ news = FALSE
  /\ pc = "idle"
  /\ header = <<>>
  /\ length = 0
  /\ yielded = <<>>

NextBox ==
  \/ \E n \in 1..Len(srcLeft) : SourcePush(n)
  \/ SourceEnd
  \/ ReadHeader
  \/ ReadPayload
  \/ OnReadable
  \/ OnEnd

SpecBox == InitBox /\ [][NextBox]_vars

InitRec ==
  /\ PreIdle /\ BoxIdle /\ RecStarted /\ EvtIdle
  /\ ReqRunning /\ StrIdle /\ StartIdle /\ LiveIdle /\ NegIdle /\ ArgIdle /\ ConIdle /\ RdIdle

NextRec ==
  \/ \E type \in RecTypesAt(Len(boxesIn) + 1) : RecBox(type)
  \/ \E cause \in {"eof", "badbox"} : RecGeneratorEnds(cause)
  \/ CloseRecordingStream
  \/ KillTimerFires
  \/ ProcessExits

SpecRec == InitRec /\ [][NextRec]_vars

\* an event stream that carries one record
InitEvt ==
  /\ PreIdle /\ BoxIdle /\ RecIdle
  /\ ReqIdle /\ StrIdle /\ StartIdle /\ LiveIdle /\ NegIdle /\ ArgIdle /\ ConIdle /\ RdIdle
  /\ buffer = <<>>
  /\ listeners \in Registries
  /\ dispatched = <<>>
  /\ invoked = <<>>
  /\ record \in [type : RecordTypes, action : RecordActions, index : RecordIndexes,
                 tail : RecordTails]
  /\ feed = RecordText(record)
  /\ nChunks = 0

NextEvt == \E n \in 1..Len(feed) : Chunk(n)

SpecEvt == InitEvt /\ [][NextEvt]_vars

\* an event connection that delivers long chunks to a parser with any registry
InitLong ==
  /\ PreIdle /\ BoxIdle /\ RecIdle
  /\ ReqIdle /\ StrIdle /\ StartIdle /\ LiveIdle /\ NegIdle /\ ArgIdle /\ ConIdle /\ RdIdle
  /\ buffer = <<>>
  /\ listeners \in Registries
  /\ dispatched = <<>>
  /\ invoked = <<>>
  /\ record = [type |-> <<>>, action |-> [chars |-> <<>>, start |-> FALSE],
               index |-> [chars |-> <<>>, value |-> 0], tail |-> <<>>]
  /\ feed = <<>>
  /\ nChunks = 0

NextLong == \E chunk \in LongChunks : LongChunk(chunk)

SpecLong == InitLong /\ [][NextLong]_vars

\* listeners come and go while the event connection delivers lines
InitReg ==
  /\ PreIdle /\ BoxIdle /\ RecIdle /\ EvtIdle
  /\ ReqIdle /\ StrIdle /\ StartIdle /\ LiveIdle /\ NegIdle /\ ArgIdle /\ ConIdle /\ RdIdle

NextReg ==
  \/ \E c \in ListenerChannels, cb \in ListenerCallbacks : OnMotion(c, cb)
  \/ \E c \in ListenerChannels, cb \in ListenerCallbacks : OffMotion(c, cb)
  \/ \E chunk \in LineChunks : LineChunk(chunk)

SpecReg == InitReg /\ [][NextReg]_vars

\* a recording stream request from its invocation
InitReq ==
  /\ PreIdle /\ BoxIdle /\ EvtIdle
  /\ ReqInvoked
  /\ StrIdle /\ StartIdle /\ LiveIdle /\ NegIdle /\ ArgIdle /\ ConIdle /\ RdIdle

NextReq ==
  \/ ReqBegin
  \/ PrebufferReady
  \/ InputReady
  \/ SpawnEvent
  \/ SpawnError
  \/ \E type \in RecTypesAt(Len(boxesIn) + 1) : RecBox(type)
  \/ \E cause \in {"eof", "badbox"} : RecGeneratorEnds(cause)
  \/ CloseRecordingStream
  \/ KillTimerFires
  \/ ProcessExits

SpecReq == InitReq /\ [][NextReq]_vars

\* What the event loop and the operating system guarantee to a recording
\* stream request: a pending promise of the request is settled and its
\* continuation runs, an armed timer fires, a process that was sent a signal
\* exits, and the output of a process that has exited ends.  Nothing makes
\* the transcoder deliver another box.
ReqFairness ==
  /\ WF_vars(ReqBegin)
  /\ WF_vars(PrebufferReady)
  /\ WF_vars(InputReady)
  /\ WF_vars(SpawnEvent)
  /\ WF_vars(SpawnError)
  /\ WF_vars(KillTimerFires)
  /\ WF_vars(ProcessExits /\ signals # <<>>)
  /\ WF_vars(RecGeneratorEnds("eof") /\ ~cpAlive)

SpecReqFair == SpecReq /\ ReqFairness

\* recording streams 1 and 2 on one delegate
InitStr ==
  /\ PreIdle /\ BoxIdle /\ RecIdle /\ EvtIdle
  /\ ReqIdle /\ StrIdle /\ StartIdle /\ LiveIdle /\ NegIdle /\ ArgIdle /\ ConIdle /\ RdIdle

NextStr ==
  \/ \E s \in StreamIds, ok \in BOOLEAN : StartSession(s, ok)
  \/ \E s \in StreamIds : StreamFinally(s)
  \/ \E s \in StreamIds : StreamClose(s)
  \/ \E p \in 1..Len(procs) : StreamKillTimer(p)
  \/ \E p \in 1..Len(procs) : StreamProcessExits(p)

SpecStr == InitStr /\ [][NextStr]_vars

\* startPreBuffer calls on one PreBuffer
InitStart ==
  /\ PreIdle /\ BoxIdle /\ RecIdle /\ EvtIdle
  /\ ReqIdle /\ StrIdle /\ StartIdle /\ LiveIdle /\ NegIdle /\ ArgIdle /\ ConIdle /\ RdIdle

NextStart ==
  \/ \E arg \in 0..MaxStartCalls : StartPreBufferCall(arg)
  \/ \E i \in 1..Len(startCalls) : StartPreBufferListening(i)

SpecStart == InitStart /\ [][NextStart]_vars

\* live streaming requests on one StreamingDelegate
InitLive ==
  /\ PreIdle /\ BoxIdle /\ RecIdle /\ EvtIdle
  /\ ReqIdle /\ StrIdle /\ StartIdle /\ NegIdle /\ ArgIdle /\ ConIdle /\ RdIdle
  /\ pendingSessions = {}
  /\ activeSessions = [s \in SessionIds |-> 0]
  /\ liveProcs = <<>>
  /\ callbacks = <<>>
  /\ prepared = [s \in SessionIds |-> 0]
  /\ liveSource \in BOOLEAN

NextLive ==
  \/ \E id \in SessionIds : PrepareStream(id)
  \/ \E id \in SessionIds, usable \in BOOLEAN : StartStream(id, usable)
  \/ \E id \in SessionIds : StopRequest(id)
  \/ \E id \in SessionIds : ReconfigureRequest(id)
  \/ \E p \in 1..Len(liveProcs) : LiveProcessExits(p)
  \/ \E p \in 1..Len(liveProcs) : LiveProcessEvent(p)

SpecLive == InitLive /\ [][NextLive]_vars

\* a RecordingDelegate with pre-buffering enabled and a recording
\* configuration, before its first request
InitRd ==
  /\ PreIdle /\ BoxIdle /\ RecIdle /\ EvtIdle
  /\ ReqIdle /\ StrIdle /\ StartIdle /\ LiveIdle /\ NegIdle /\ ArgIdle /\ ConIdle
  /\ RdIdle

NextRd ==
  \/ \E r \in RdStreamIds : RdRequest(r)
  \/ \E r \in RdStreamIds, ok \in BOOLEAN : RdPreBufferStarted(r, ok)
  \/ \E r \in RdStreamIds : RdGetVideo(r)
  \/ \E r \in RdStreamIds : RdRequestEnds(r)

SpecRd == InitRd /\ [][NextRd]_vars

\* a DahuaEvents instance from its construction
InitCon ==
  /\ PreIdle /\ BoxIdle /\ RecIdle /\ EvtIdle
  /\ ReqIdle /\ StrIdle /\ StartIdle /\ LiveIdle /\ NegIdle /\ ArgIdle /\ ConIdle /\ RdIdle

NextCon ==
  \/ EventsStart
  \/ EventsStop
  \/ \E c \in openConns : ConnectionError(c)
  \/ \E c \in openConns : ConnectionClose(c)

SpecCon == InitCon /\ [][NextCon]_vars

\* buildFfmpegArgs called by a StreamingDelegate of any configuration
InitArg ==
  /\ PreIdle /\ BoxIdle /\ RecIdle /\ EvtIdle
  /\ ReqIdle /\ StrIdle /\ StartIdle /\ LiveIdle /\ NegIdle /\ ConIdle /\ RdIdle
  /\ encoderConfig \in EncoderConfigs
  /\ builtArgs = NoArgs

NextArg == BuildFfmpegArgs

SpecArg == InitArg /\ [][NextArg]_vars

\* one request negotiated by a StreamingDelegate of any configuration
InitNeg ==
  /\ PreIdle /\ BoxIdle /\ RecIdle /\ EvtIdle
  /\ ReqIdle /\ StrIdle /\ StartIdle /\ LiveIdle /\ ArgIdle /\ ConIdle /\ RdIdle
  /\ videoRequest \in VideoRequests
  /\ videoConfig \in VideoConfigs
  /\ negotiated = NoResult

NextNeg ==
  \/ NegotiateStream
  \/ NegotiateSnapshot

SpecNeg == InitNeg /\ [][NextNeg]_vars

----------------------------------------------------------------------------
(* Claims about PreBuffer, checked under SpecPre *)

\* what a subscriber was written after its preamble of init atoms
Media(s) == SubSeq(written[s], subInit[s] + 1, Len(written[s]))

\* the media boxes arrive as moof, mdat, moof, mdat, ... (what the capture
\* process writes with -movflags frag_keyframe)
FragmentOrder ==
  \A i \in 3..Len(arrived) :
    arrived[i].type = (IF i % 2 = 1 THEN "moof" ELSE "mdat")

\* C2: for a subscriber whose connection is handled when ftyp and moov are
\* both captured, the first two units written are ftyp then moov, and the
\* first unit written after them has type 'moof', whether it comes from the
\* backlog or from the live broadcast.  (Stated here for capture streams in
\* moof/mdat order, which is all the claim needs to fail.)
C2_FirstMediaUnitIsMoof ==
  \A s \in Subs :
    (socket[s] # "none" /\ subInit[s] = 2 /\ FragmentOrder) =>
      /\ written[s][1] = ftyp
      /\ written[s][2] = moov
      /\ Len(written[s]) >= 3 => written[s][3].type = "moof"

\* C3: the media atoms delivered to a subscriber after the preamble are a
\* contiguous run of the arrival order: retained atoms up to the one that
\* arrived last before the subscription, then every atom that arrived after
\* it, each once; while the subscriber listens the run reaches the newest atom.
C3_ContiguousDelivery ==
  \A s \in Subs :
    socket[s] # "none" =>
      \E k \in (subInit[s] + 1)..(subAt[s] + 1), j \in subAt[s]..Len(arrived) :
        /\ Media(s) = SubSeq(arrived, k, j)
        /\ s \in atomListeners => j = Len(arrived)

\* C3 witness: a subscriber has been written retained atoms and live atoms
C3_Witness ==
  \E s \in Subs :
    /\ s \in atomListeners
    /\ \E i \in 1..Len(Media(s)) : Media(s)[i].id <= subAt[s]
    /\ \E i \in 1..Len(Media(s)) : Media(s)[i].id > subAt[s] + 1

\* C4: right after the ingestion loop has processed an atom at time `now`
\* (loopNow), every retained entry has time >= now - 15000.
C4_RetainedWithinWindow ==
  \A i \in 1..Len(prebufferFmp4) :
    prebufferFmp4[i].time >= loopNow - DEFAULT_PREBUFFER_DURATION

\* C4 witness: the loop has just evicted entries and retains others
C4_Witness ==
  /\ loopNow = now
  /\ Len(prebufferFmp4) > 0
  /\ Len(prebufferFmp4) + 2 < Len(arrived)


\* C27: at all times, also while time passes with no atom arriving, every
\* retained entry has time >= now - 15000.
C27_RetainedWithinWindowAtAllTimes ==
  \A i \in 1..Len(prebufferFmp4) :
    prebufferFmp4[i].time >= now - DEFAULT_PREBUFFER_DURATION

\* the atoms of the retained sequence, in order
Retained == [i \in 1..Len(prebufferFmp4) |-> prebufferFmp4[i].atom]

\* C29: the first atom received is ftyp and the second is moov, for good;
\* neither is in the retained sequence; the retained atoms are the later
\* atoms in arrival order up to the newest, and an entry leaves the sequence
\* only from the head and only when it is older than the window.
C29_InitAtomsOnceMediaInOrder ==
  [][/\ ftyp' = (IF Len(arrived') >= 1 THEN arrived'[1] ELSE NoAtom)
     /\ moov' = (IF Len(arrived') >= 2 THEN arrived'[2] ELSE NoAtom)
     /\ ftyp # NoAtom => ftyp' = ftyp
     /\ moov # NoAtom => moov' = moov
     /\ \E k \in {3} \cup 3..(Len(arrived') + 1) :
          Retained' = SubSeq(arrived', k, Len(arrived'))
     /\ \A i \in 1..Len(prebufferFmp4) :
          (\A j \in 1..Len(prebufferFmp4') : prebufferFmp4'[j] # prebufferFmp4[i]) =>
            prebufferFmp4[i].time < now - DEFAULT_PREBUFFER_DURATION]_vars

\* C29 witness: five atoms arrived; the first two are ftyp and moov, the
\* oldest media atom was evicted and the newer ones are retained in order
C29_Witness ==
  /\ Len(arrived) = 5
  /\ ftyp = arrived[1] /\ moov = arrived[2]
  /\ Retained = SubSeq(arrived, 4, 5)

\* C30: a subscriber whose connection is handled before ftyp or moov is
\* captured is written the atoms in arrival order from the first: ftyp, then
\* moov, each once, then the media atoms, up to the newest while it listens.
C30_EarlySubscriberGetsInitOnce ==
  \A s \in Subs :
    (socket[s] # "none" /\ subAt[s] < 2) =>
      /\ Len(written[s]) <= Len(arrived)
      /\ written[s] = SubSeq(arrived, 1, Len(written[s]))
      /\ s \in atomListeners => Len(written[s]) = Len(arrived)

\* C30 witness: a subscriber connected between ftyp and moov got ftyp from
\* the preamble, moov and a media atom from the live broadcast
C30_Witness ==
  \E s \in Subs :
    /\ subAt[s] = 1 /\ subInit[s] = 1
    /\ Len(written[s]) >= 3
    /\ written[s][1] = ftyp /\ written[s][2] = moov
    /\ written[s][3].type \in {"moof", "mdat"}


\* C31: the stop() that marks the buffer released destroys the connection of
\* every subscriber listening then and leaves none listening, while the init
\* atoms, the retained sequence and the ingestion are as before; a subscriber
\* whose connection is destroyed is never written another atom.
C31_StopDetachesSubscribers ==
  [][/\ (~released /\ released') =>
          /\ atomListeners' = {}
          /\ \A s \in atomListeners : socket'[s] = "destroyed"
          /\ UNCHANGED <<ftyp, moov, prebufferFmp4, arrived, written>>
     /\ \A s \in Subs :
          socket[s] = "destroyed" =>
            socket'[s] = "destroyed" /\ written'[s] = written[s]]_vars

\* C31 witness: after stop() an atom arrived that a subscriber, destroyed
\* while it was up to date, was not written; the capture goes on
C31_Witness ==
  /\ released
  /\ loopNow = now /\ now > 0
  /\ \E s \in Subs :
       /\ socket[s] = "destroyed"
       /\ written[s] # <<>>
       /\ Len(written[s]) < Len(arrived)
       /\ written[s][Len(written[s])].id = Len(arrived) - 1
       /\ Len(prebufferFmp4) > 0


\* C32: an error of the parser is caught by the ingestion loop and never
\* leaves it; once the parser has failed no atom is appended to the retained
\* sequence or written to a subscriber, and ftyp, moov and the retained
\* sequence keep their values.
C32_ParserFailureEndsIngestion ==
  [][/\ ingestion' # "crashed"
     /\ ingestion = "ended" => ingestion' = "ended"
     /\ pc = "failed" =>
          /\ UNCHANGED <<arrived, ftyp, moov, prebufferFmp4>>
          /\ \A s \in Subs : socket[s] = "open" => written'[s] = written[s]]_vars

\* C32 witness: the source ended inside a box after three atoms; the parser
\* failed, the loop ended, and the subscriber is still connected with what it
\* was written
C32_Witness ==
  /\ pc = "failed"
  /\ ingestion = "ended"
  /\ truncated
  /\ Len(arrived) = 3 /\ Len(prebufferFmp4) = 1
  /\ socket["sub1"] = "open" /\ Len(written["sub1"]) = 3

----------------------------------------------------------------------------
(* Claims about the box parsers, checked under SpecBox *)

\* a box whose 4-byte length field counts its header and its payload
WellFormedBox(b) ==
  /\ Len(b.hdr) = 8
  /\ readInt32BE(b.hdr) = 8 + Len(b.payload)

\* the atoms yielded, as [hdr, payload] boxes
yielded_boxes ==
  [i \in 1..Len(yielded) |-> [hdr |-> yielded[i].header, payload |-> yielded[i].data]]

AllWellFormed == \A i \in 1..Len(boxes) : WellFormedBox(boxes[i])

\* C7: for a byte stream that is a concatenation of well-formed boxes,
\* delivered whole in chunks of any sizes, the loop yields one atom per box in
\* stream order, each with length = length field - 8, type = the tag of
\* header bytes 4..7 and header ++ data = the bytes of the box; when the loop
\* ends or has consumed every byte it has yielded an atom for every box.
C7_RoundTrip ==
  (AllWellFormed /\ ~truncated) =>
    /\ Len(yielded) <= Len(boxes)
    /\ \A i \in 1..Len(yielded) :
         /\ Len(yielded[i].header) = 8
         /\ yielded[i].header \o yielded[i].data = boxes[i].hdr \o boxes[i].payload
         /\ yielded[i].length = readInt32BE(boxes[i].hdr) - 8
         /\ yielded[i].type = TypeOfTag(SubSeq(boxes[i].hdr, 5, 8))
    /\ (pc = "failed" \/ (srcLeft = <<>> /\ rbuf = <<>> /\ pc \in {"idle", "waitHeader"}))
         => Flatten(yielded_boxes) = Flatten(boxes)

\* C7 witness: three well-formed boxes, with and without payload, all yielded
C7_Witness ==
  /\ AllWellFormed /\ ~truncated
  /\ Len(boxes) = 3 /\ Len(yielded) = 3
  /\ \E i \in 1..3 : yielded[i].data # <<>>
  /\ \E i \in 1..3 : yielded[i].data = <<>>

\* C8: in every box-parsing loop a header whose computed payload length is
\* negative or above 50 MiB makes the parse fail: the loop never goes on to
\* read a payload for it and never yields an atom for it.
C8_MalformedHeaderEndsLoop ==
  /\ pc \in {"payload", "waitPayload"} => (length >= 0 /\ length <= MaxBoxPayload)
  /\ \A i \in 1..Len(yielded) :
       yielded[i].length >= 0 /\ yielded[i].length <= MaxBoxPayload

\* C9: when the source ends before the bytes readLength was asked for are
\* available, the read fails: no atom is yielded whose header or payload
\* holds fewer bytes than declared, and no read stays pending after the
\* Readable has emitted 'end'.  (Stated here for sources that send
\* well-formed boxes and stop part-way.)
C9_TruncatedReadFails ==
  AllWellFormed =>
    /\ \A i \in 1..Len(yielded) :
         Len(yielded[i].header) = 8 /\ Len(yielded[i].data) = yielded[i].length
    /\ ~(pc \in {"waitHeader", "waitPayload"} /\ endState = "emitted")

----------------------------------------------------------------------------
(* Claims about one recording stream, checked under SpecRec *)

\* position of the first moov the loop was handed (0: none yet)
FirstMoov ==
  IF \E i \in 1..Len(boxesIn) : boxesIn[i].type = "moov"
  THEN CHOOSE i \in 1..Len(boxesIn) :
         /\ boxesIn[i].type = "moov"
         /\ \A k \in 1..(i - 1) : boxesIn[k].type # "moov"
  ELSE 0

\* box j is the first mdat after the moof i, with no other moof in between
IsFragmentPair(i, j) ==
  /\ FirstMoov < i /\ i < j /\ j <= Len(boxesIn)
  /\ boxesIn[i].type = "moof"
  /\ boxesIn[j].type = "mdat"
  /\ \A k \in (i + 1)..(j - 1) : boxesIn[k].type \notin {"moof", "mdat"}

\* the mdat boxes that complete a fragment
PairEnds ==
  {j \in 1..Len(boxesIn) : \E i \in 1..Len(boxesIn) : IsFragmentPair(i, j)}

\* C1: the buffers handleFragmentsRequests yields are: first the
\* initialization fragment, the bytes of ftyp followed by those of moov; then
\* one media fragment per moof that is followed by an mdat before any other
\* moof, the bytes of that moof followed by those of that mdat, in stream
\* order.  A moof overtaken by another moof, and an mdat with no pending moof,
\* appear in no fragment, and no box appears in two fragments.
C1_FragmentSequence ==
  /\ FirstMoov = 0 => fragments = <<>>
  /\ FirstMoov > 0 =>
       /\ Len(fragments) = 1 + Cardinality(PairEnds)
       /\ boxesIn[1].type = "ftyp" /\ FirstMoov = 2
       /\ fragments[1] = BoxBytes(boxesIn[1]) \o BoxBytes(boxesIn[2])
       /\ \A k \in 2..Len(fragments) :
            \E i, j \in 1..Len(boxesIn) :
              /\ IsFragmentPair(i, j)
              /\ Cardinality({e \in PairEnds : e < j}) = k - 2
              /\ fragments[k] = BoxBytes(boxesIn[i]) \o BoxBytes(boxesIn[j])

\* C1 witness: two media fragments were yielded from a stream that also held
\* a moof overtaken by another moof and an mdat with no pending moof
C1_Witness ==
  /\ Len(fragments) = 3
  /\ \E i \in 3..(Len(boxesIn) - 1) :
       boxesIn[i].type = "moof" /\ boxesIn[i + 1].type = "moof"
  /\ \E j \in 3..Len(boxesIn) : boxesIn[j].type = "mdat" /\ j \notin PairEnds

\* C10: a transcoder that is torn down (by closeRecordingStream or by the end
\* of the fragment loop) is sent SIGTERM first; if it is still alive when the
\* 2 s timer fires it is sent SIGKILL; so once teardown is over and no timer
\* is pending, a process that is still alive has been sent SIGKILL.
C10_GracefulThenForcedKill ==
  /\ (tornDown # "no" /\ signals # <<>>) => signals[1] = "SIGTERM"
  /\ (timer = "fired" /\ cpAlive) => \E i \in 1..Len(signals) : signals[i] = "SIGKILL"
  /\ (tornDown # "no" /\ recPc = "finished" /\ timer # "armed" /\ cpAlive)
       => \E i \in 1..Len(signals) : signals[i] = "SIGKILL"

----------------------------------------------------------------------------
(* Claims about DahuaEvents, checked under SpecEvt *)

\* the four motion-relevant event types
MotionRelevantTypes ==
  {S_VideoMotion, S_CrossLineDetection, S_CrossRegionDetection, S_AlarmLocal}

\* the one event a record stands for: channel index + 1, the record's type,
\* active exactly for the action "start" in any letter case
EventOfRecord ==
  [channel |-> record.index.value + 1, eventType |-> record.type,
   active |-> record.action.start]

\* the listeners registered for the record's channel, in registration order
ListenersOfRecord ==
  SelectSeq(listeners, LAMBDA l : l.channel = record.index.value + 1)

\* C5: a complete record Code=T;action=A;index=n of a motion-relevant type,
\* fed as a single chunk to a parser with an empty buffer, dispatches exactly
\* one event; it goes to the listeners of channel n+1 and to no others, and
\* carries eventType T and active = TRUE exactly when A is "start" compared
\* without regard to letter case.
C5_SingleChunkOneEvent ==
  (nChunks = 1 /\ feed = <<>> /\ record.type \in MotionRelevantTypes) =>
    /\ dispatched = <<EventOfRecord>>
    /\ Len(invoked) = Len(ListenersOfRecord)
    /\ \A i \in 1..Len(invoked) :
         invoked[i] = [cb |-> ListenersOfRecord[i].cb,
                       channel |-> EventOfRecord.channel,
                       eventType |-> EventOfRecord.eventType,
                       active |-> EventOfRecord.active]

\* C5 witness: the record CrossLineDetection / START / 12 arrived as one
\* chunk and the one listener of channel 13 was called with active = TRUE
C5_Witness ==
  /\ nChunks = 1 /\ feed = <<>>
  /\ record.type = S_CrossLineDetection
  /\ record.action.chars = <<"S", "T", "A", "R", "T">>
  /\ record.index.value = 12
  /\ Len(invoked) = 1 /\ invoked[1].channel = 13 /\ invoked[1].active

\* C6: a complete motion-relevant record split at any position into two
\* consecutive chunks has, after both chunks were handled, dispatched exactly
\* one event in total, carrying the channel, type and active value of the
\* whole record.
C6_SplitRecordOneEvent ==
  (nChunks = 2 /\ feed = <<>> /\ record.type \in MotionRelevantTypes) =>
    dispatched = <<EventOfRecord>>

\* C23: no listener on any channel is ever invoked for a record whose type is
\* not VideoMotion, CrossLineDetection, CrossRegionDetection or AlarmLocal,
\* however the record is split into chunks; once such a record and its line
\* end were delivered, the buffer keeps only the line end, as for any record.
C23_OnlyMotionTypesInvoked ==
  /\ \A i \in 1..Len(invoked) : invoked[i].eventType \in MotionRelevantTypes
  /\ record.type \notin MotionRelevantTypes => invoked = <<>> /\ dispatched = <<>>
  /\ (feed = <<>> /\ nChunks > 0 /\ record.tail = S_Newline) => buffer = S_Newline

\* C23 witness: a VideoLoss record for channel 5, which has listeners, was
\* delivered in two chunks with its line end; nobody was invoked and the
\* record has left the buffer
C23_Witness ==
  /\ record.type = S_VideoLoss
  /\ record.index.value + 1 = 5
  /\ ListenersOfRecord # <<>>
  /\ record.tail = S_Newline
  /\ nChunks = 2 /\ feed = <<>>
  /\ invoked = <<>>
  /\ buffer = S_Newline


\* C24: after each handleChunk call, whatever the sizes of the chunks so far,
\* the retained text buffer is at most 100,000 characters long.
C24_BufferWithinCap == StrLength(buffer) <= BufferCap

\* C24 witness: the chunks delivered went over the cap and handleChunk
\* cleared the buffer (trimming alone never leaves it empty)
C24_Witness ==
  /\ nChunks = MaxLongChunks
  /\ buffer = <<>>


\* the invocations an event owes: one for each callback registered for its
\* channel when it is dispatched, in registration order
OwedTo(ev) ==
  LET cbs == SelectSeq(listeners, LAMBDA l : l.channel = ev.channel)
  IN [i \in 1..Len(cbs) |->
        [cb |-> cbs[i].cb, channel |-> ev.channel, eventType |-> ev.eventType,
         active |-> ev.active]]

RECURSIVE Owed(_)
Owed(evs) == IF evs = <<>> THEN <<>> ELSE OwedTo(evs[1]) \o Owed(Tail(evs))

----------------------------------------------------------------------------
(* Claims about a recording stream request, checked under SpecReq *)

\* the terminal marker: zero-length data with isLast = TRUE
IsFinalMarker(packet) == packet.isLast /\ packet.data = <<>>

LastPacketIsFinalMarker ==
  packets # <<>> /\ IsFinalMarker(packets[Len(packets)])

\* C11: once closeRecordingStream has been called at any point after the
\* request was invoked (also while it awaits the prebuffer start or the
\* spawn of the transcoder), no further data packet is yielded: every packet
\* added afterwards is the terminal marker.
C11_NoDataAfterClose ==
  [][closeCalled =>
       \A i \in (Len(packets) + 1)..Len(packets') : IsFinalMarker(packets'[i])]_vars

\* C12: when a recording stream ends normally (the transcoder's atom
\* sequence ends and the stream was not cancelled), the last packet yielded
\* is the final marker: empty data with isLast = TRUE.
C12_NormalEndFinalMarker ==
  (recPc = "finished" /\ endCause = "eof" /\ ~closeCalled) => LastPacketIsFinalMarker

\* C13: a recording stream that ends because of a failure (no recording
\* configuration, no capture source, spawn failure, or a truncated or
\* malformed box in the middle of the stream) has yielded, as its last
\* packet, zero-length data with isLast = TRUE.
C13_FailureFinalMarker ==
  (recPc = "finished" /\ endCause \in {"noconfig", "nosource", "spawn", "badbox"})
    => LastPacketIsFinalMarker

\* C15: a recording stream request made while no video source is configured,
\* with pre-buffering enabled or disabled, spawns no subprocess at all:
\* neither the recording transcoder nor the prebuffer capture process.
C15_NoSourceNoSpawn ==
  ~videoConfigSource => (captureSpawned = 0 /\ transcoderSpawned = 0)

----------------------------------------------------------------------------
(* Claims about several recording streams, checked under SpecStr *)

\* C14: with two recording streams on one delegate, starting, failing or
\* closing one of them never signals the transcoder of the other: every
\* signal a transcoder receives is sent on behalf of its own stream.
C14_StreamsKeepOwnProcess ==
  \A p \in 1..Len(procs) :
    \A i \in 1..Len(procs[p].signals) : procs[p].signals[i].by = procs[p].stream

----------------------------------------------------------------------------
(* Further claims about PreBuffer, checked under SpecPre and SpecStart *)

\* C16: after stop() has been called, no subscriber is delivered an atom
\* that the ingestion loop broadcasts: once released is set, an iteration of
\* the ingestion loop writes to no subscriber.
C16_NoAtomsAfterStop ==
  [][(released /\ arrived' # arrived) => written' = written]_vars

\* C17: over any sequence of startPreBuffer calls on one PreBuffer at most
\* one capture subprocess is spawned and at most one listening socket is
\* opened.
C17_AtMostOneCapture ==
  captureProcesses <= 1 /\ captureServers <= 1

----------------------------------------------------------------------------
(* Claims about StreamingDelegate, checked under SpecLive *)

\* the step is the handling of a request of this type for this session id
IsRequestStep(type, id) ==
  /\ Len(callbacks') = Len(callbacks) + 1
  /\ callbacks'[Len(callbacks')].type = type
  /\ callbacks'[Len(callbacks')].session = id

\* the error the request of this step reported through its callback
ReportedError == callbacks'[Len(callbacks')].error

\* C18 (as stated): prepareStream never spawns; a START for a Pending id
\* spawns exactly one subprocess and moves the id from the pending set to the
\* active set.
C18_StartOfPendingSpawns ==
  [][\A id \in SessionIds :
       (IsRequestStep("START", id) /\ id \in pendingSessions) =>
         /\ Len(liveProcs') = Len(liveProcs) + 1
         /\ id \notin pendingSessions'
         /\ activeSessions'[id] = Len(liveProcs')]_vars

\* C18 (amended): prepareStream records a Pending session and never spawns;
\* a subprocess is spawned only by a START for an id that is Pending; such a
\* START, when a source is configured, spawns exactly one subprocess and
\* moves the id from the pending set to the active set, and when no source
\* is configured reports 'No source configured', spawns nothing and only
\* removes the id from the pending set; a START for an id that is not
\* Pending reports 'Session not found', spawns nothing and leaves both sets
\* unchanged; an id is in both sets only after more than one Prepare.
C18_PrepareStartDiscipline ==
  [][/\ \A id \in SessionIds :
          /\ IsRequestStep("PREPARE", id) =>
               (liveProcs' = liveProcs /\ id \in pendingSessions')
          /\ IsRequestStep("START", id) =>
               IF id \notin pendingSessions
               THEN /\ ReportedError = "Session not found"
                    /\ liveProcs' = liveProcs
                    /\ pendingSessions' = pendingSessions
                    /\ activeSessions' = activeSessions
               ELSE IF liveSource
               THEN /\ Len(liveProcs') = Len(liveProcs) + 1
                    /\ liveProcs'[Len(liveProcs')].session = id
                    /\ pendingSessions' = pendingSessions \ {id}
                    /\ activeSessions' = [activeSessions EXCEPT ![id] = Len(liveProcs')]
               ELSE /\ ReportedError = "No source configured"
                    /\ liveProcs' = liveProcs
                    /\ pendingSessions' = pendingSessions \ {id}
                    /\ activeSessions' = activeSessions
     /\ Len(liveProcs') > Len(liveProcs) =>
          \E id \in pendingSessions : IsRequestStep("START", id)
     /\ \A id \in SessionIds :
          (id \in pendingSessions' /\ activeSessions'[id] # 0) => prepared'[id] >= 2]_vars

\* C18 witness: a session prepared once is active and no longer pending, and
\* a START for an id that was not pending has reported 'Session not found'
C18_Witness ==
  /\ \E id \in SessionIds :
       activeSessions[id] # 0 /\ id \notin pendingSessions /\ prepared[id] = 1
  /\ \E i \in 1..Len(callbacks) :
       callbacks[i].type = "START" /\ callbacks[i].error = "Session not found"

\* C19: a STOP for an id in the active set kills that session's subprocess
\* and removes exactly that id from the active set, leaving every other
\* session and process untouched; a STOP for an id that is not active leaves
\* the pending set, the active set and every subprocess unchanged; both
\* complete without error.
C19_StopFrame ==
  [][\A id \in SessionIds :
       IsRequestStep("STOP", id) =>
         /\ ReportedError = "none"
         /\ pendingSessions' = pendingSessions
         /\ IF activeSessions[id] # 0
            THEN LET p == activeSessions[id]
                 IN /\ activeSessions' = [activeSessions EXCEPT ![id] = 0]
                    /\ Len(liveProcs') = Len(liveProcs)
                    /\ \A q \in 1..Len(liveProcs) : q # p => liveProcs'[q] = liveProcs[q]
                    /\ liveProcs[p].alive =>
                         liveProcs'[p].signals = Append(liveProcs[p].signals, "SIGKILL")
            ELSE activeSessions' = activeSessions /\ liveProcs' = liveProcs]_vars

\* C19 witness: a running session was stopped, its process got SIGKILL, and
\* the other session is still active with a process that got no signal
C19_Witness ==
  \E id, other \in SessionIds :
    /\ id # other
    /\ callbacks # <<>> /\ callbacks[Len(callbacks)] = Callback("STOP", id, "none", 0)
    /\ activeSessions[id] = 0
    /\ \E p \in 1..Len(liveProcs) :
         liveProcs[p].session = id /\ liveProcs[p].signals = <<"SIGKILL">>
    /\ activeSessions[other] # 0
    /\ liveProcs[activeSessions[other]].signals = <<>>

\* C20: when the transcoder executable cannot be spawned for a START request,
\* the start callback reports an error and the session id is at no time in
\* the active set.
C20_SpawnFailureReported ==
  \A p \in 1..Len(liveProcs) :
    ~liveProcs[p].usable =>
      /\ activeSessions[liveProcs[p].session] # p
      /\ \A i \in 1..Len(callbacks) :
           callbacks[i].proc = p => callbacks[i].error # "none"


\* the step handles the 'error' or 'close' event of live process p
IsProcessEventStep(p) == ~liveProcs[p].notified /\ liveProcs'[p].notified

C38_RunningProcessesReachable ==
  [][/\ \A p \in 1..Len(liveProcs') :
          (liveProcs'[p].alive /\ liveProcs'[p].signals = <<>>) =>
            activeSessions'[liveProcs'[p].session] = p
     /\ \A p \in 1..Len(liveProcs) :
          IsProcessEventStep(p) =>
            \A id \in SessionIds :
              (activeSessions[id] # 0 /\ activeSessions[id] # p) =>
                /\ activeSessions'[id] = activeSessions[id]
                /\ liveProcs'[activeSessions[id]] = liveProcs[activeSessions[id]]]_vars

----------------------------------------------------------------------------
(* Claims about resolution and bitrate negotiation, checked under SpecNeg *)

\* the resolution mode in effect is adaptive
AdaptiveMode == videoConfig.resolutionMode \in {"unset", "adaptive"}

\* every resolved dimension is within the configured maximum, when one is set
WithinConfiguredMaxima ==
  /\ videoConfig.maxWidth # 0 => negotiated.width <= videoConfig.maxWidth
  /\ videoConfig.maxHeight # 0 => negotiated.height <= videoConfig.maxHeight

\* C21 as stated: every resolved resolution is within the configured maxima,
\* and in adaptive mode each resolved dimension equals min(requested,
\* configured maximum).
C21_AdaptiveIsMinOfRequestAndConfigured ==
  negotiated.kind # "none" =>
    /\ WithinConfiguredMaxima
    /\ AdaptiveMode =>
         /\ videoConfig.maxWidth # 0 =>
              negotiated.width = Min2(videoRequest.width, videoConfig.maxWidth)
         /\ videoConfig.maxHeight # 0 =>
              negotiated.height = Min2(videoRequest.height, videoConfig.maxHeight)

\* C21 amended: every resolved resolution is within the configured maxima, and
\* in adaptive mode each resolved dimension equals min(requested, configured
\* maximum, HomeKit maximum), the configured maximum counting only when set.
C21_AdaptiveIsMinWithHomeKitLimit ==
  negotiated.kind # "none" =>
    /\ WithinConfiguredMaxima
    /\ AdaptiveMode =>
         /\ negotiated.width =
              Min2(Min2(videoRequest.width,
                        OrElse(videoConfig.maxWidth, HOMEKIT_MAX_WIDTH)),
                   HOMEKIT_MAX_WIDTH)
         /\ negotiated.height =
              Min2(Min2(videoRequest.height,
                        OrElse(videoConfig.maxHeight, HOMEKIT_MAX_HEIGHT)),
                   HOMEKIT_MAX_HEIGHT)

\* a 2560x1440 request under maxWidth=1920, maxHeight=1080 resolved to 1920x1080
C21_Witness ==
  /\ negotiated.kind = "stream"
  /\ AdaptiveMode
  /\ videoConfig.maxWidth = 1920 /\ videoConfig.maxHeight = 1080
  /\ videoRequest.width = 2560 /\ videoRequest.height = 1440
  /\ negotiated.width = 1920 /\ negotiated.height = 1080

\* C22 as stated: the live bitrate is <= maxBitrate whenever maxBitrate is
\* configured, >= minBitrate whenever minBitrate is configured, and equals the
\* requested bitrate when neither is configured.
C22_BitrateWithinBothBounds ==
  negotiated.kind = "stream" =>
    /\ videoConfig.maxBitrate # 0 => negotiated.bitrate <= videoConfig.maxBitrate
    /\ videoConfig.minBitrate # 0 => negotiated.bitrate >= videoConfig.minBitrate
    /\ (videoConfig.maxBitrate = 0 /\ videoConfig.minBitrate = 0) =>
         negotiated.bitrate = videoRequest.max_bit_rate

\* C22 amended: the live bitrate is >= minBitrate whenever minBitrate is
\* configured, <= maxBitrate whenever maxBitrate is configured and minBitrate
\* is not configured above it, and equals the requested bitrate when neither
\* is configured.
C22_BitrateWithinConsistentBounds ==
  negotiated.kind = "stream" =>
    /\ (videoConfig.maxBitrate # 0
        /\ (videoConfig.minBitrate = 0
            \/ videoConfig.minBitrate <= videoConfig.maxBitrate)) =>
         negotiated.bitrate <= videoConfig.maxBitrate
    /\ videoConfig.minBitrate # 0 => negotiated.bitrate >= videoConfig.minBitrate
    /\ (videoConfig.maxBitrate = 0 /\ videoConfig.minBitrate = 0) =>
         negotiated.bitrate = videoRequest.max_bit_rate

\* a request above the maximum of a configuration with both bounds was capped
C22_Witness ==
  /\ negotiated.kind = "stream"
  /\ videoConfig.maxBitrate = 2000 /\ videoConfig.minBitrate = 300
  /\ videoRequest.max_bit_rate = 5000
  /\ negotiated.bitrate = 2000

\* C26: a RECONFIGURE request for any session id, pending, active or unknown,
\* completes without error and leaves the pending set, the active set and
\* every subprocess exactly as they were.
C26_ReconfigureFrame ==
  [][\A id \in SessionIds :
       IsRequestStep("RECONFIGURE", id) =>
         /\ ReportedError = "none"
         /\ pendingSessions' = pendingSessions
         /\ activeSessions' = activeSessions
         /\ liveProcs' = liveProcs]_vars

\* C26 witness: the latest request was a RECONFIGURE for an active session;
\* its process is alive and got no signal, and another session is pending
C26_Witness ==
  /\ callbacks # <<>>
  /\ LET last == callbacks[Len(callbacks)]
     IN /\ last.type = "RECONFIGURE"
        /\ last.error = "none"
        /\ activeSessions[last.session] # 0
        /\ liveProcs[activeSessions[last.session]].alive
        /\ liveProcs[activeSessions[last.session]].signals = <<>>
        /\ pendingSessions # {}

\* a STOP request for the id was processed and no prepareStream for it since
StoppedSincePrepare(id) ==
  \E i \in 1..Len(callbacks) :
    /\ callbacks[i].type = "STOP" /\ callbacks[i].session = id
    /\ \A j \in (i + 1)..Len(callbacks) :
         ~(callbacks[j].type = "PREPARE" /\ callbacks[j].session = id)

\* C28: once a STOP was processed for a session id, Pending or Active at that
\* moment, no later START for that id spawns a subprocess or puts the id in
\* the active set, unless a new Prepare for the id came first.
C28_NoStartAfterStop ==
  [][\A id \in SessionIds :
       (IsRequestStep("START", id) /\ StoppedSincePrepare(id)) =>
         /\ liveProcs' = liveProcs
         /\ activeSessions'[id] = 0]_vars

----------------------------------------------------------------------------
(* Claims about buildFfmpegArgs, checked under SpecArg *)

\* the -bf or the -g flag is in the argument string
GopFlagsEmitted == builtArgs.g > 0 \/ builtArgs.bf >= 0

\* C34 as stated: the pixel-format flag and the color-range flag are emitted
\* only for the software encoder family, the GOP-size and B-frame flags only
\* when a quality profile is set.
C34_FlagsOnlyForSoftware ==
  builtArgs.built =>
    /\ builtArgs.pixFmt => EncoderOf(encoderConfig) = "software"
    /\ builtArgs.colorRange => EncoderOf(encoderConfig) = "software"
    /\ GopFlagsEmitted => encoderConfig.qualityProfile # "unset"

\* C34 amended: the pixel-format flag is emitted only for the software
\* encoder family, the color-range flag only for a hardware family other
\* than VAAPI, the GOP-size and B-frame flags only when a quality profile is
\* set.
C34_FlagsByEncoderFamily ==
  builtArgs.built =>
    /\ builtArgs.pixFmt => EncoderOf(encoderConfig) = "software"
    /\ builtArgs.colorRange =>
         EncoderOf(encoderConfig) \notin {"software", "vaapi"}
    /\ GopFlagsEmitted => encoderConfig.qualityProfile # "unset"

\* C34 witness: NVENC with the profile 'speed' got -color_range mpeg, -bf 0
\* and -g 25, and no -pix_fmt
C34_Witness ==
  /\ builtArgs.built
  /\ encoderConfig.encoder = "nvenc" /\ encoderConfig.qualityProfile = "speed"
  /\ builtArgs.vcodec = "h264_nvenc"
  /\ builtArgs.colorRange /\ ~builtArgs.pixFmt
  /\ builtArgs.g = 25 /\ builtArgs.bf = 0

----------------------------------------------------------------------------
(* Claims about the event parser over later chunks, checked under SpecEvt *)

\* C35: a record that occurs once in the stream is dispatched at most once,
\* whatever chunks follow the one that made it complete: the event of the
\* whole record is in the dispatched events at most once.
C35_RecordDispatchedAtMostOnce ==
  Cardinality({i \in 1..Len(dispatched) : dispatched[i] = EventOfRecord}) <= 1

----------------------------------------------------------------------------
(* Claims about the event connection, checked under SpecCon *)

\* the step is a call of start()
IsStartStep ==
  /\ Len(logged') = Len(logged) + 1
  /\ logged'[Len(logged')] \in {L_AlreadyRunning, L_Starting}

\* C36: at most one event connection of the instance is open at any time,
\* and a start() made while no connection is open (never started, stopped,
\* closed or failed) opens one.
C36_OneConnectionAndRestart ==
  [][/\ Cardinality(openConns') <= 1
     /\ (IsStartStep /\ openConns = {}) => openConns' # {}]_vars

----------------------------------------------------------------------------
(* Claims about closing a recording stream, checked under SpecReqFair *)

\* C37: once closeRecordingStream was called for a stream whose request has
\* been invoked, the generator of the stream eventually finishes and its
\* transcoder, if it still runs, has been sent a signal.
C37_CloseEventuallyTerminates ==
  closeCalled ~> (recPc = "finished" /\ (cpAlive => signals # <<>>))

----------------------------------------------------------------------------
(* Claims about the prebuffer of a RecordingDelegate, checked under SpecRd *)

\* C39: whatever requests run one after another or overlap, at most one
\* capture process is spawned, and every request that reads from a PreBuffer
\* reads from the one instance the delegate holds.
C39_OneCaptureOnePreBuffer ==
  /\ rdCaptures <= 1
  /\ \A r \in RdStreamIds : rdRequests[r].uses # 0 => rdRequests[r].uses = 1
  /\ \A r \in RdStreamIds : rdRequests[r].uses # 0 => rdRequests[r].uses = rdPreBuffer

\* C39 witness: the capture process runs, one request that began while the
\* PreBuffer was starting and one that began later both read from it, and a
\* third is about to
C39_Witness ==
  /\ rdCaptures = 1 /\ rdPreBufferSession = 1
  /\ rdRequests[1].pc = "subscribed" /\ rdRequests[1].uses = 1
  /\ rdRequests[2].pc = "subscribed" /\ rdRequests[2].uses = 1
  /\ rdRequests[3].pc = "awaitVideo" /\ rdRequests[3].uses = 1

----------------------------------------------------------------------------
(* Claims about the accumulator of the fragment loop, checked under SpecRec *)

\* C40: once the initialization fragment has been yielded, `pending` is
\* empty at every later point of the fragment loop.
C40_PendingEmptyAfterInit ==
  ~isFirstFragment => pending = <<>>

=============================================================================
